---- MODULE Spec2Model ----
(***************************************************************************)
(* Model of the nextjs-settings SettingsManager (environment overlay,      *)
(* storage merge, set/refresh) and of the nextjs-logging Logger (level     *)
(* filtering, module-wide override, registration).                         *)
(*                                                                         *)
(* Strings whose content the code inspects (environment values, setting    *)
(* keys, environment variable names) are tuples of one-character strings.  *)
(***************************************************************************)
EXTENDS Integers, Sequences, FiniteSets, TLC

(***************************************************************************)
(* Bounds of the model.                                                    *)
(***************************************************************************)
MaxRawLen == 2        \* SpecCoerce: every string over CoerceAlphabet up to this length
MaxCalls == 2         \* Spec: number of manager calls in one behaviour

(***************************************************************************)
(* JavaScript values.  Every value is a record of one shape so that any    *)
(* two values can be compared: t is the type tag, n a number, s a string   *)
(* (tuple of characters), k the children (array items, object members).    *)
(***************************************************************************)
MkBool(b) == [t |-> "boolean", n |-> IF b THEN 1 ELSE 0, s |-> <<>>, k |-> <<>>]
MkNum(n) == [t |-> "number", n |-> n, s |-> <<>>, k |-> <<>>]
MkInf(sign) == [t |-> "infinity", n |-> sign, s |-> <<>>, k |-> <<>>]
MkNaN == [t |-> "nan", n |-> 0, s |-> <<>>, k |-> <<>>]
MkStr(s) == [t |-> "string", n |-> 0, s |-> s, k |-> <<>>]
MkNull == [t |-> "null", n |-> 0, s |-> <<>>, k |-> <<>>]
MkArr(items) == [t |-> "array", n |-> 0, s |-> <<>>, k |-> items]
MkMember(key, v) == [t |-> "member", n |-> 0, s |-> key, k |-> <<v>>]
MkObj(members) == [t |-> "object", n |-> 0, s |-> <<>>, k |-> members]

IsNumberType(v) == v.t \in {"number", "infinity", "nan"}
IsFiniteNumber(v) == v.t = "number"

(***************************************************************************)
(* Character helpers.                                                      *)
(***************************************************************************)
DigitChars == <<"0", "1", "2", "3", "4", "5", "6", "7", "8", "9">>
IsDigit(c) == \E i \in 1..10 : DigitChars[i] = c
DigitVal(c) == (CHOOSE i \in 1..10 : DigitChars[i] = c) - 1
IsWS(c) == c = " "

LowerChars == <<"a", "b", "c", "p", "q">>
UpperChars == <<"A", "B", "C", "P", "Q">>
toUpperCaseChar(c) ==
  IF \E i \in 1..Len(LowerChars) : LowerChars[i] = c
  THEN UpperChars[CHOOSE i \in 1..Len(LowerChars) : LowerChars[i] = c]
  ELSE c
toLowerCaseChar(c) ==
  IF \E i \in 1..Len(UpperChars) : UpperChars[i] = c
  THEN LowerChars[CHOOSE i \in 1..Len(UpperChars) : UpperChars[i] = c]
  ELSE c
toUpperCase(s) == [i \in 1..Len(s) |-> toUpperCaseChar(s[i])]
toLowerCase(s) == [i \in 1..Len(s) |-> toLowerCaseChar(s[i])]
startsWith(s, p) == Len(s) >= Len(p) /\ SubSeq(s, 1, Len(p)) = p
slice(s, from) == SubSeq(s, from + 1, Len(s))

RECURSIVE TrimLeft(_)
TrimLeft(s) == IF s # <<>> /\ IsWS(Head(s)) THEN TrimLeft(Tail(s)) ELSE s
RECURSIVE TrimRight(_)
TrimRight(s) ==
  IF s # <<>> /\ IsWS(s[Len(s)]) THEN TrimRight(SubSeq(s, 1, Len(s) - 1)) ELSE s
Trim(s) == TrimRight(TrimLeft(s))

RECURSIVE DigitsValue(_)
DigitsValue(s) ==
  IF s = <<>> THEN 0 ELSE 10 * DigitsValue(SubSeq(s, 1, Len(s) - 1)) + DigitVal(s[Len(s)])
AllDigits(s) == s # <<>> /\ \A i \in 1..Len(s) : IsDigit(s[i])

(***************************************************************************)
(* Number(raw): ECMAScript StringToNumber, for the literals the model's    *)
(* alphabets can spell: white space is trimmed, the empty string is 0,     *)
(* an optionally signed "Infinity" is infinite, an optionally signed       *)
(* decimal integer is that integer, anything else is NaN.                  *)
(***************************************************************************)
InfinityChars == <<"I", "n", "f", "i", "n", "i", "t", "y">>
UnsignedToNumber(u) ==
  IF u = InfinityChars THEN MkInf(1)
  ELSE IF AllDigits(u) THEN MkNum(DigitsValue(u))
  ELSE MkNaN
Negate(v) ==
  IF v.t = "number" THEN MkNum(0 - v.n)
  ELSE IF v.t = "infinity" THEN MkInf(0 - v.n)
  ELSE v
Number(raw) ==
  LET u == Trim(raw) IN
  IF u = <<>> THEN MkNum(0)
  ELSE IF Head(u) = "-" THEN Negate(UnsignedToNumber(Tail(u)))
  ELSE IF Head(u) = "+" THEN UnsignedToNumber(Tail(u))
  ELSE UnsignedToNumber(u)
isNaN(v) == v.t = "nan"

(***************************************************************************)
(* JSON.parse(raw), for JSON texts without escapes, fractions and          *)
(* exponents: literals, integers, strings, arrays and objects.  A parse    *)
(* result is [ok, v, i]: i is the position after the parsed text.          *)
(***************************************************************************)
Fail == [ok |-> FALSE, v |-> MkNull, i |-> 0]
Ok(v, i) == [ok |-> TRUE, v |-> v, i |-> i]
At(s, i) == IF i >= 1 /\ i <= Len(s) THEN s[i] ELSE "EOF"
RECURSIVE SkipWS(_, _)
SkipWS(s, i) == IF IsWS(At(s, i)) THEN SkipWS(s, i + 1) ELSE i
Matches(s, i, word) ==
  i + Len(word) - 1 <= Len(s) /\ SubSeq(s, i, i + Len(word) - 1) = word
RECURSIVE DigitsEnd(_, _)
DigitsEnd(s, i) == IF IsDigit(At(s, i)) THEN DigitsEnd(s, i + 1) ELSE i
ParseInt(s, i) ==
  LET neg == At(s, i) = "-"
      b == IF neg THEN i + 1 ELSE i
      e == DigitsEnd(s, b)
  IN  IF e = b \/ (At(s, b) = "0" /\ e > b + 1) THEN Fail
      ELSE Ok(MkNum((IF neg THEN -1 ELSE 1) * DigitsValue(SubSeq(s, b, e - 1))), e)
RECURSIVE StringEnd(_, _)
StringEnd(s, i) ==
  IF At(s, i) \in {"EOF", "\\"} THEN 0
  ELSE IF At(s, i) = "\"" THEN i
  ELSE StringEnd(s, i + 1)
ParseString(s, i) ==
  IF At(s, i) # "\"" THEN Fail
  ELSE LET e == StringEnd(s, i + 1)
       IN  IF e = 0 THEN Fail ELSE Ok(MkStr(SubSeq(s, i + 1, e - 1)), e + 1)

RECURSIVE ParseValue(_, _)
RECURSIVE ParseElems(_, _, _)
RECURSIVE ParseMembers(_, _, _)
ParseValue(s, i0) ==
  LET i == SkipWS(s, i0)
      c == At(s, i)
  IN  IF Matches(s, i, <<"t", "r", "u", "e">>) THEN Ok(MkBool(TRUE), i + 4)
      ELSE IF Matches(s, i, <<"f", "a", "l", "s", "e">>) THEN Ok(MkBool(FALSE), i + 5)
      ELSE IF Matches(s, i, <<"n", "u", "l", "l">>) THEN Ok(MkNull, i + 4)
      ELSE IF c = "\"" THEN ParseString(s, i)
      ELSE IF c = "[" THEN
        (IF At(s, SkipWS(s, i + 1)) = "]" THEN Ok(MkArr(<<>>), SkipWS(s, i + 1) + 1)
         ELSE ParseElems(s, i + 1, <<>>))
      ELSE IF c = "{" THEN
        (IF At(s, SkipWS(s, i + 1)) = "}" THEN Ok(MkObj(<<>>), SkipWS(s, i + 1) + 1)
         ELSE ParseMembers(s, i + 1, <<>>))
      ELSE ParseInt(s, i)
ParseElems(s, i, acc) ==
  LET r == ParseValue(s, i) IN
  IF ~r.ok THEN Fail
  ELSE LET j == SkipWS(s, r.i) IN
       IF At(s, j) = "," THEN ParseElems(s, j + 1, Append(acc, r.v))
       ELSE IF At(s, j) = "]" THEN Ok(MkArr(Append(acc, r.v)), j + 1)
       ELSE Fail
ParseMembers(s, i, acc) ==
  LET key == ParseString(s, SkipWS(s, i)) IN
  IF ~key.ok THEN Fail
  ELSE LET c == SkipWS(s, key.i) IN
       IF At(s, c) # ":" THEN Fail
       ELSE LET r == ParseValue(s, c + 1) IN
            IF ~r.ok THEN Fail
            ELSE LET j == SkipWS(s, r.i)
                     m == Append(acc, MkMember(key.v.s, r.v))
                 IN  IF At(s, j) = "," THEN ParseMembers(s, j + 1, m)
                     ELSE IF At(s, j) = "}" THEN Ok(MkObj(m), j + 1)
                     ELSE Fail
JSONparse(raw) ==
  LET r == ParseValue(raw, 1) IN
  IF r.ok /\ SkipWS(raw, r.i) = Len(raw) + 1 THEN r ELSE Fail

(***************************************************************************)
(* SettingsManager.assignEnvValue: the value assigned for a raw            *)
(* environment string.                                                     *)
(***************************************************************************)
TrueChars == <<"t", "r", "u", "e">>
FalseChars == <<"f", "a", "l", "s", "e">>
assignEnvValue(raw) ==
  IF raw = TrueChars \/ raw = FalseChars THEN MkBool(raw = TrueChars)
  ELSE IF ~isNaN(Number(raw)) THEN Number(raw)
  ELSE IF JSONparse(raw).ok THEN JSONparse(raw).v
  ELSE MkStr(raw)


(***************************************************************************)
(* Settings objects are functions from keys to values.                     *)
(***************************************************************************)
EmptyObj == [k \in {} |-> MkNull]
Obj1(key, v) == [k \in {key} |-> v]
\* { ...a, ...b }
Spread(a, b) ==
  [k \in (DOMAIN a) \cup (DOMAIN b) |-> IF k \in DOMAIN b THEN b[k] ELSE a[k]]

\* JSON.parse(JSON.stringify(v)) on a value: a non-finite number is written
\* as null, every other value of the model is read back as it was written.
RECURSIVE JSONclone(_)
JSONclone(v) ==
  IF v.t \in {"infinity", "nan"} THEN MkNull
  ELSE [v EXCEPT !.k = [i \in 1..Len(v.k) |-> JSONclone(v.k[i])]]
JSONcloneObj(o) == [k \in DOMAIN o |-> JSONclone(o[k])]

(***************************************************************************)
(* The inputs of the settings model.                                       *)
(***************************************************************************)
KeyA == <<"a">>
KeyB == <<"b">>
Prefixes == {<<>>, <<"p">>}
Backends == {"memory", "file", "redis"}
DefaultsChoices == {Obj1(KeyA, MkNum(0)), Spread(Obj1(KeyA, MkNum(0)), Obj1(KeyB, MkStr(<<"x">>)))}
StoreChoices == {EmptyObj, Obj1(KeyA, MkNum(0)), Obj1(KeyB, MkNum(7))}
\* process.env: no variable, or one variable: P_A (the prefixed name of key a)
\* set to "3", to the empty string or to "Infinity", P_C (no key of the
\* defaults) set to "3", or A (the bare name of key a) set to "3" or "Infinity"
EnvChoices ==
  {EmptyObj}
    \cup {Obj1(<<"P", "_", "A">>, value) : value \in {<<"3">>, <<>>, InfinityChars}}
    \cup {Obj1(<<"P", "_", "C">>, <<"3">>)}
    \cup {Obj1(<<"A">>, value) : value \in {<<"3">>, InfinityChars}}
Partials == {Obj1(KeyA, MkNum(5)), Obj1(KeyB, MkNum(1))}

VARIABLES
  cfg,        \* the manager's configuration and its storage backend's options
  env,        \* process.env
  settings,   \* SettingsManager._settings
  store,      \* what the storage backend holds
  calls,      \* the manager's calls that have not settled yet, oldest first
  started,    \* number of calls made
  last,       \* the step that led to the current state
  requests,   \* the settings route handlers' requests in flight, next to resume first
  envString,  \* SpecCoerce: the environment string
  assigned,   \* SpecCoerce: the value assignEnvValue assigned for it
  coerced,    \* SpecCoerce: whether assignEnvValue has run
  isClientEnv,            \* isClient(): the code runs in a browser
  moduleGlobalLogLevel,   \* logger.ts: the module-wide override level, or "null"
  overrideReset,          \* the override was set and then reset to null
  loggers,                \* the Logger instances constructed, in order
  registry,               \* server registry: name -> index of the registered instance
  loggerStore,            \* client useLoggerStore.loggers: name -> LogConfigEntry
  emitted,                \* the log call that led to the current state, if any
  created,                \* the construction that led to the current state, if any
  registered,             \* the names Registry.register has been called with
  reply                   \* the registry call or route handler that led to the current state

settingsVars == <<cfg, env, settings, store, calls, started, last, requests>>
coerceVars == <<envString, assigned, coerced>>
loggerVars ==
  <<isClientEnv, moduleGlobalLogLevel, overrideReset, loggers, registry, loggerStore,
    emitted, created, registered, reply>>
vars ==
  <<cfg, env, settings, store, calls, started, last, requests, envString, assigned, coerced,
    isClientEnv, moduleGlobalLogLevel, overrideReset, loggers, registry, loggerStore,
    emitted, created, registered, reply>>

(***************************************************************************)
(* SettingsManager.getEnvVarName and loadFromEnvVars.                      *)
(***************************************************************************)
getEnvVarName(c, key) ==
  IF c.prefix # <<>> THEN toUpperCase(c.prefix \o <<"_">> \o key) ELSE toUpperCase(key)

\* Mutant: the allow-extra scan runs whatever the allowExtra flag says.
loadFromEnvVars_alwaysExtra(s, c, e) ==
  LET fullPrefix == toUpperCase(c.prefix) \o <<"_">>
      keyOf(envVar) == toLowerCase(slice(envVar, Len(fullPrefix)))
      matching == {envVar \in DOMAIN e : startsWith(envVar, fullPrefix)}
  IN  Spread(s, [key \in {keyOf(envVar) : envVar \in matching} |->
                   assignEnvValue(e[CHOOSE envVar \in matching : keyOf(envVar) = key])])

\* Mutant: the allow-extra scan keeps the spelling of the variable's name.
loadFromEnvVars_keepsCase(s, c, e) ==
  LET prefix == toUpperCase(c.prefix)
      fullPrefix == prefix \o <<"_">>
      keyOf(envVar) == slice(envVar, Len(fullPrefix))
      matching == {envVar \in DOMAIN e : startsWith(envVar, fullPrefix)}
  IN  IF c.allowExtra /\ prefix # <<>>
      THEN Spread(s, [key \in {keyOf(envVar) : envVar \in matching} |->
                        assignEnvValue(e[CHOOSE envVar \in matching : keyOf(envVar) = key])])
      ELSE [key \in DOMAIN s |->
              IF getEnvVarName(c, key) \in DOMAIN e /\ e[getEnvVarName(c, key)] # <<>>
              THEN assignEnvValue(e[getEnvVarName(c, key)])
              ELSE s[key]]

loadFromEnvVars(s, c, e) ==
  LET prefix == toUpperCase(c.prefix)
      fullPrefix == prefix \o <<"_">>
      keyOf(envVar) == toLowerCase(slice(envVar, Len(fullPrefix)))
      matching == {envVar \in DOMAIN e : startsWith(envVar, fullPrefix)}
  IN  IF c.allowExtra /\ prefix # <<>>
      THEN Spread(s, [key \in {keyOf(envVar) : envVar \in matching} |->
                        assignEnvValue(e[CHOOSE envVar \in matching : keyOf(envVar) = key])])
      ELSE [key \in DOMAIN s |->
              IF getEnvVarName(c, key) \in DOMAIN e /\ e[getEnvVarName(c, key)] # <<>>
              THEN assignEnvValue(e[getEnvVarName(c, key)])
              ELSE s[key]]

(***************************************************************************)
(* The manager's calls.  A call that awaits its storage backend stays in   *)
(* calls until the await settles:                                          *)
(*   op      "initialize", "refresh" or "set"                              *)
(*   phase   "loaded"   InMemoryStorage.load has returned arg              *)
(*           "reading"  load's read is outstanding (file, redis)           *)
(*           "saved"    InMemoryStorage.save has run                       *)
(*           "writing"  save's write is outstanding (file, redis)          *)
(*           "expiring" RedisStorage.save's pexpire is outstanding         *)
(*   arg     the loaded object, or the object handed to save               *)
(*   partial the argument of set                                           *)
(*   aliased arg is still the live object (FileStorage.save serialises it  *)
(*           only after an await)                                          *)
(*   clean   no other call has run since this one was made                 *)
(*   pre, preStore   the settings and the stored object when it was made   *)
(*   n       the number of the call, in the order the calls were made      *)
(***************************************************************************)
Call(op, phase, arg, partial, aliased) ==
  [op |-> op, phase |-> phase, arg |-> arg, partial |-> partial, aliased |-> aliased,
   clean |-> calls = <<>>, pre |-> settings, preStore |-> store, n |-> started + 1]
\* failed counts the calls that have rejected so far
Event(ev, c, ok) ==
  [ev |-> ev, op |-> c.op, ok |-> ok, clean |-> c.clean, arg |-> c.arg,
   partial |-> c.partial, pre |-> c.pre, preStore |-> c.preStore, n |-> c.n,
   failed |-> last.failed + (IF ev = "settled" /\ ~ok THEN 1 ELSE 0)]
Remove(seq, i) == SubSeq(seq, 1, i - 1) \o SubSeq(seq, i + 1, Len(seq))
\* another call runs: the pending ones are no longer alone
Overlapped(seq) == [i \in 1..Len(seq) |-> [seq[i] EXCEPT !.clean = FALSE]]
\* this._settings[key] = ... writes into the object a pending save still holds
MutatedInPlace(seq, s) ==
  [i \in 1..Len(seq) |-> IF seq[i].aliased THEN [seq[i] EXCEPT !.arg = s] ELSE seq[i]]
\* this._settings = { ... } makes a new live object
Replaced(seq) == [i \in 1..Len(seq) |-> [seq[i] EXCEPT !.aliased = FALSE]]

\* storage.load() on what the backend holds: InMemoryStorage copies its store,
\* FileStorage parses the file, RedisStorage parses every field of the hash.
load(c, st) == st

\* Mutant: a value already stored is kept.
save_keepsStored(c, st, obj) == Spread(JSONcloneObj(obj), st)
\* The object a backend holds once save(obj) has landed: InMemoryStorage and
\* RedisStorage (hset) merge into what is stored, FileStorage overwrites the
\* file; file and redis keep the JSON text of the values.
save(c, st, obj) ==
  IF c.backend = "memory" THEN Spread(st, obj)
  ELSE IF c.backend = "file" THEN JSONcloneObj(obj)
  ELSE Spread(st, JSONcloneObj(obj))

\* Mutant: the live (environment-overlaid) object is spread over the loaded one.
mergeLoaded_envWins(s, loaded) == Spread(loaded, s)

\* this._settings = { ...this._settings, ...(loaded ?? {}) }
mergeLoaded(s, loaded) == Spread(s, loaded)

\* Mutant: the old values are spread over the new ones.
setMerge_oldWins(s, newSettings) == Spread(newSettings, s)

\* this._settings = { ...this._settings, ...newSettings }
setMerge(s, newSettings) == Spread(s, newSettings)

\* initialize() and refresh() up to their await: the environment overlay, then
\* the call of storage.load().
LoadCall(op) ==
  /\ started < MaxCalls
  /\ started' = started + 1
  /\ LET s == loadFromEnvVars(settings, cfg, env)
         c == Call(op, IF cfg.backend = "memory" THEN "loaded" ELSE "reading",
                   IF cfg.backend = "memory" THEN load(cfg, store) ELSE EmptyObj,
                   EmptyObj, FALSE)
     IN  /\ settings' = s
         /\ calls' = Append(Overlapped(MutatedInPlace(calls, s)), c)
         /\ last' = Event("call", c, TRUE)
  /\ UNCHANGED <<cfg, env, store, coerceVars, loggerVars, requests>>

initialize == LoadCall("initialize")

refresh == LoadCall("refresh")

\* The continuation after `await this._storage.load()`.
LoadMerge(i, loaded) ==
  /\ settings' = mergeLoaded(settings, loaded)
  /\ calls' = Replaced(Remove(calls, i))
  /\ last' = Event("settled", [calls[i] EXCEPT !.arg = loaded], TRUE)
  /\ UNCHANGED <<cfg, env, store, started, coerceVars, loggerVars, requests>>

loadResumes ==
  \E i \in 1..Len(calls) :
    /\ calls[i].phase = "loaded"
    /\ LoadMerge(i, calls[i].arg)

\* The read of a file or redis load lands; the commands of one redis
\* connection are answered in the order they were sent.
IsIO(c) == c.phase \in {"reading", "writing", "expiring"}
MayLand(i) ==
  cfg.backend = "redis" => \A j \in 1..(i - 1) : ~IsIO(calls[j])

loadSettles ==
  \E i \in 1..Len(calls) :
    /\ calls[i].phase = "reading"
    /\ MayLand(i)
    /\ LoadMerge(i, load(cfg, store))

\* Mutant: a failed load undoes the environment overlay.
loadRejects_rollsBack ==
  \E i \in 1..Len(calls) :
    /\ calls[i].phase = "reading"
    /\ MayLand(i)
    /\ settings' = calls[i].pre
    /\ calls' = Remove(calls, i)
    /\ last' = Event("settled", calls[i], FALSE)
    /\ UNCHANGED <<cfg, env, store, started, coerceVars, loggerVars, requests>>

\* readFile, JSON.parse or hgetall fails: load rejects, and so does the call
\* that awaits it.
loadRejects ==
  \E i \in 1..Len(calls) :
    /\ calls[i].phase = "reading"
    /\ MayLand(i)
    /\ calls' = Remove(calls, i)
    /\ last' = Event("settled", calls[i], FALSE)
    /\ UNCHANGED <<cfg, env, settings, store, started, coerceVars, loggerVars, requests>>

\* set(newSettings) up to its await: the merge into the live object, then the
\* call of storage.save(this._settings).  InMemoryStorage.save has no await
\* and RedisStorage.save serialises the entries before its first await;
\* FileStorage.save awaits mkdir before it serialises the object.
setOneOf(partials) ==
  \E newSettings \in partials :
    /\ started < MaxCalls
    /\ started' = started + 1
    /\ LET s == setMerge(settings, newSettings)
           c == Call("set",
                     IF cfg.backend = "memory" THEN "saved" ELSE "writing",
                     IF cfg.backend = "redis" THEN JSONcloneObj(s) ELSE s,
                     newSettings, cfg.backend = "file")
       IN  /\ settings' = s
           /\ store' = IF cfg.backend = "memory" THEN save(cfg, store, s) ELSE store
           /\ calls' = Append(Overlapped(Replaced(calls)), c)
           /\ last' = Event("call", c, TRUE)
    /\ UNCHANGED <<cfg, env, coerceVars, loggerVars, requests>>

set == setOneOf(Partials)

\* The continuation after `await this._storage.save(...)` resolved.
saveResumes ==
  \E i \in 1..Len(calls) :
    /\ calls[i].phase = "saved"
    /\ calls' = Remove(calls, i)
    /\ last' = Event("settled", calls[i], TRUE)
    /\ UNCHANGED <<cfg, env, settings, store, started, coerceVars, loggerVars, requests>>

\* The write of a file or redis save lands: writeFile, or hset (skipped for
\* an object without entries) followed by pexpire when a ttl is configured.
saveSettles ==
  \E i \in 1..Len(calls) :
    /\ calls[i].phase = "writing"
    /\ MayLand(i)
    /\ store' = save(cfg, store, calls[i].arg)
    /\ IF cfg.backend = "redis" /\ cfg.ttl
       THEN /\ calls' = [calls EXCEPT ![i].phase = "expiring", ![i].aliased = FALSE]
            /\ last' = Event("io", calls[i], TRUE)
       ELSE /\ calls' = Remove(calls, i)
            /\ last' = Event("settled", calls[i], TRUE)
    /\ UNCHANGED <<cfg, env, settings, started, coerceVars, loggerVars, requests>>

\* Mutant: a failed save undoes the update of the live object.
saveRejects_rollback ==
  \E i \in 1..Len(calls) :
    /\ calls[i].phase = "writing"
    /\ MayLand(i)
    /\ settings' = calls[i].pre
    /\ calls' = Remove(calls, i)
    /\ last' = Event("settled", calls[i], FALSE)
    /\ UNCHANGED <<cfg, env, store, started, coerceVars, loggerVars, requests>>

\* writeFile, mkdir or hset fails: save rejects and nothing was written.
saveRejects ==
  \E i \in 1..Len(calls) :
    /\ calls[i].phase = "writing"
    /\ MayLand(i)
    /\ calls' = Remove(calls, i)
    /\ last' = Event("settled", calls[i], FALSE)
    /\ UNCHANGED <<cfg, env, settings, store, started, coerceVars, loggerVars, requests>>

\* pexpire answers: save resolves, or rejects with the hash already written.
expireSettles ==
  \E i \in 1..Len(calls), ok \in BOOLEAN :
    /\ calls[i].phase = "expiring"
    /\ MayLand(i)
    /\ calls' = Remove(calls, i)
    /\ last' = Event("settled", calls[i], ok)
    /\ UNCHANGED <<cfg, env, settings, store, started, coerceVars, loggerVars, requests>>

(***************************************************************************)
(* The state after `new SettingsManager(options)`: the live object is a    *)
(* copy of the defaults and nothing has been read.                         *)
(***************************************************************************)
NoCall ==
  [op |-> "new", phase |-> "none", arg |-> EmptyObj, partial |-> EmptyObj, aliased |-> FALSE,
   clean |-> TRUE, pre |-> EmptyObj, preStore |-> EmptyObj, n |-> 0]
\* no call has been made
NewEvent ==
  [ev |-> "new", op |-> NoCall.op, ok |-> TRUE, clean |-> NoCall.clean, arg |-> NoCall.arg,
   partial |-> NoCall.partial, pre |-> NoCall.pre, preStore |-> NoCall.preStore, n |-> 0,
   failed |-> 0]
CoerceIdle == envString = <<>> /\ assigned = MkNull /\ coerced = FALSE
NoLog == [logged |-> FALSE, logger |-> 0, level |-> "info", sink |-> "none"]
NoEntry ==
  [name |-> "", level |-> "info", type |-> "unknown", errorVerbose |-> FALSE, enabled |-> FALSE]
NotCreated ==
  [made |-> FALSE, logger |-> 0, register |-> FALSE, existed |-> FALSE, existing |-> NoEntry,
   args |-> NoEntry, from |-> 0]
\* no registry call and no request handled
NoReply ==
  [op |-> "none", status |-> 0, body |-> <<>>, results |-> <<>>, report |-> "none",
   counts |-> <<0, 0, 0>>, preLoggers |-> <<>>, preRegistry |-> <<>>]
LoggerIdle ==
  /\ registered = {}
  /\ reply = NoReply
  /\ isClientEnv = FALSE
  /\ moduleGlobalLogLevel = "null"
  /\ overrideReset = FALSE
  /\ loggers = <<>>
  /\ registry = [name \in {} |-> 0]
  /\ loggerStore = [name \in {} |-> NoEntry]
  /\ emitted = NoLog
  /\ created = NotCreated

Init ==
  /\ cfg \in {c \in [prefix : Prefixes, allowExtra : BOOLEAN, backend : Backends,
                     ttl : BOOLEAN, defaults : DefaultsChoices] :
                c.ttl => c.backend = "redis"}
  /\ env \in EnvChoices
  /\ store \in StoreChoices
  /\ settings = cfg.defaults
  /\ calls = <<>>
  /\ started = 0
  /\ last = NewEvent
  /\ requests = <<>>
  /\ CoerceIdle
  /\ LoggerIdle

Next ==
  \/ initialize
  \/ refresh
  \/ loadResumes
  \/ loadSettles
  \/ loadRejects
  \/ set
  \/ saveResumes
  \/ saveSettles
  \/ saveRejects
  \/ expireSettles

Spec == Init /\ [][Next]_vars

(***************************************************************************)
(* SpecCoerce: assignEnvValue applied to every string over CoerceAlphabet  *)
(* up to MaxRawLen characters and to the strings of CoerceExamples.        *)
(***************************************************************************)
CoerceAlphabet == {"1", "0", " ", "-", "+", "[", "]", "\"", "x"}
CoerceExamples ==
  {TrueChars, FalseChars, <<"3">>, <<"4", "2">>, <<"f", "o", "o">>,
   <<"{", "\"", "a", "\"", ":", "1", "}">>, InfinityChars, <<"-">> \o InfinityChars,
   <<" ", "t", "r", "u", "e">>, <<"n", "u", "l", "l">>, <<"[", "1", ",", " ", "0", "]">>}
RawStrings ==
  CoerceExamples \cup UNION {[1..n -> CoerceAlphabet] : n \in 0..MaxRawLen}

SettingsIdle ==
  /\ cfg = [prefix |-> <<>>, allowExtra |-> FALSE, backend |-> "memory", ttl |-> FALSE,
            defaults |-> EmptyObj]
  /\ env = EmptyObj
  /\ settings = EmptyObj
  /\ store = EmptyObj
  /\ calls = <<>>
  /\ started = 0
  /\ last = NewEvent
  /\ requests = <<>>

InitCoerce ==
  /\ envString \in RawStrings
  /\ assigned = MkNull
  /\ coerced = FALSE
  /\ SettingsIdle
  /\ LoggerIdle

coerce ==
  /\ ~coerced
  /\ assigned' = assignEnvValue(envString)
  /\ coerced' = TRUE
  /\ UNCHANGED <<envString, settingsVars, loggerVars>>

NextCoerce == coerce

SpecCoerce == InitCoerce /\ [][NextCoerce]_vars

(***************************************************************************)
(* Claims about the SettingsManager.                                       *)
(***************************************************************************)
Settled(op) == last.ev = "settled" /\ last.op = op
EnvVarSet(key) ==
  getEnvVarName(cfg, key) \in DOMAIN env /\ env[getEnvVarName(cfg, key)] # <<>>
HoldsPartial ==
  \A key \in DOMAIN last.partial : key \in DOMAIN settings /\ settings[key] = last.partial[key]

\* C1 (as claimed): with allow-extra disabled and a prefix set, after a
\* refresh() every default key whose variable PREFIX_KEY is set holds the
\* coerced environment value, whatever the storage backend holds.
C1_EnvOverridesStorage ==
  (Settled("refresh") /\ last.ok /\ last.clean /\ ~cfg.allowExtra /\ cfg.prefix # <<>>)
    => \A key \in DOMAIN cfg.defaults :
         EnvVarSet(key) => settings[key] = assignEnvValue(env[getEnvVarName(cfg, key)])

ExtraKeys ==
  IF cfg.allowExtra /\ cfg.prefix # <<>>
  THEN {toLowerCase(slice(envVar, Len(cfg.prefix) + 1)) :
          envVar \in {n \in DOMAIN env : startsWith(n, toUpperCase(cfg.prefix) \o <<"_">>)}}
  ELSE {}
FreshInitializeOnEmptyStorage ==
  /\ Settled("initialize") /\ last.ok /\ last.clean
  /\ last.pre = cfg.defaults
  /\ last.arg = EmptyObj
  /\ \A key \in DOMAIN cfg.defaults : getEnvVarName(cfg, key) \notin DOMAIN env

\* C3 (as claimed): after initialize() with no matching environment variable
\* and an empty storage, get() is exactly the defaults: same values, no other key.
C3_ExactlyDefaults ==
  FreshInitializeOnEmptyStorage => settings = cfg.defaults

\* C3 (amended): after such an initialize() every default key holds its
\* default, and the only other keys of get() are those the allow-extra scan
\* made of the PREFIX_ variables.
C3_DefaultsKept ==
  FreshInitializeOnEmptyStorage =>
    /\ \A key \in DOMAIN cfg.defaults : settings[key] = cfg.defaults[key]
    /\ DOMAIN settings = (DOMAIN cfg.defaults) \cup ExtraKeys

C3_Witness ==
  /\ FreshInitializeOnEmptyStorage
  /\ env # EmptyObj
  /\ ExtraKeys # {}
  /\ DOMAIN settings # DOMAIN cfg.defaults

\* C4: after set(partial) with no other operation in between, get() holds the
\* partial's value for each of its keys and every other key keeps its value.
C4_ReadYourWrites ==
  (last.op = "set" /\ last.ev \in {"call", "io", "settled"} /\ last.clean)
    => /\ HoldsPartial
       /\ DOMAIN settings = (DOMAIN last.pre) \cup (DOMAIN last.partial)
       /\ \A key \in (DOMAIN last.pre) \ (DOMAIN last.partial) : settings[key] = last.pre[key]

C4_Witness ==
  /\ last.op = "set" /\ last.ev = "call" /\ last.clean
  /\ \E key \in (DOMAIN last.partial) \cap (DOMAIN last.pre) :
       last.pre[key] # last.partial[key] /\ settings[key] = last.partial[key]
  /\ (DOMAIN last.pre) \ (DOMAIN last.partial) # {}

\* C5 (as claimed): after set(partial) resolved with no concurrent operation,
\* storage.load() returns for every key of get() the value get() holds.
C5_StoredEqualsLive ==
  (Settled("set") /\ last.ok /\ last.clean)
    => \A key \in DOMAIN settings :
         key \in DOMAIN load(cfg, store) /\ load(cfg, store)[key] = settings[key]

\* C6 (as claimed): when save rejects during set(partial), the live object
\* still holds the partial's values and the stored state is unchanged.
C6_RejectedSaveWroteNothing ==
  (Settled("set") /\ ~last.ok /\ last.clean)
    => HoldsPartial /\ store = last.preStore

\* C6 (amended): when save rejects during set(partial), the live object still
\* holds the partial's values; the stored state is unchanged, except that the
\* redis backend with a ttl, whose pexpire failed after its hset, already
\* holds the entries of the live object.
C6_RejectedSaveKeepsLive ==
  (Settled("set") /\ ~last.ok /\ last.clean)
    => /\ HoldsPartial
       /\ \/ store = last.preStore
          \/ /\ cfg.backend = "redis" /\ cfg.ttl
             /\ store = Spread(last.preStore, JSONcloneObj(settings))

C6_Witness ==
  /\ Settled("set") /\ ~last.ok /\ last.clean
  /\ HoldsPartial
  /\ store = last.preStore
  /\ \E key \in DOMAIN last.partial : key \notin DOMAIN load(cfg, store)

(***************************************************************************)
(* Claims about the coercion of environment strings.                       *)
(***************************************************************************)
\* A signed decimal integer, white space around it allowed.
IsFiniteNumberString(str) ==
  LET u == Trim(str)
      d == IF u # <<>> /\ Head(u) \in {"-", "+"} THEN Tail(u) ELSE u
  IN  AllDigits(d)

\* C7 (as claimed): "true"/"false" become booleans, "3" the number 3, "foo"
\* stays a string, '{"a":1}' becomes the object {a:1}, and only a string that
\* is a finite number is turned into a number.
C7_Coercion ==
  coerced =>
    /\ envString = TrueChars => assigned = MkBool(TRUE)
    /\ envString = FalseChars => assigned = MkBool(FALSE)
    /\ envString = <<"3">> => assigned = MkNum(3)
    /\ envString = <<"f", "o", "o">> => assigned = MkStr(<<"f", "o", "o">>)
    /\ envString = <<"{", "\"", "a", "\"", ":", "1", "}">>
         => assigned = MkObj(<<MkMember(<<"a">>, MkNum(1))>>)
    /\ IsNumberType(assigned) => IsFiniteNumberString(envString)

(***************************************************************************)
(* The Logger: levels, the module-wide override, construction and          *)
(* registration.                                                           *)
(***************************************************************************)
MaxLoggers == 2       \* SpecRegistry: number of Logger instances constructed

Levels == {"fatal", "error", "warn", "success", "info", "start", "debug", "trace"}

\* Mutant: success ranked with info and start.
LOG_LEVELS_successAsInfo ==
  "fatal" :> 0 @@ "error" :> 1 @@ "warn" :> 2 @@ "success" :> 4 @@ "info" :> 4 @@
  "start" :> 4 @@ "debug" :> 5 @@ "trace" :> 6

LOG_LEVELS ==
  "fatal" :> 0 @@ "error" :> 1 @@ "warn" :> 2 @@ "success" :> 3 @@ "info" :> 4 @@
  "start" :> 4 @@ "debug" :> 5 @@ "trace" :> 6

\* new Logger(name, type, level, errorVerbose, enabled): the fields it sets.
\* listeners counts the callbacks of this instance in the store's listener
\* set; unsubscribe is this.unsubscribe: "undefined", or the handle of the
\* last subscription, "live" until it has been called ("called").
Logger(name, type, level, errorVerbose, enabled) ==
  [name |-> name, type |-> type, level |-> level, errorVerbose |-> errorVerbose,
   enabled |-> enabled, listeners |-> 0, unsubscribe |-> "undefined"]

toJSON(logger) ==
  [name |-> logger.name, level |-> logger.level, type |-> logger.type,
   errorVerbose |-> logger.errorVerbose, enabled |-> logger.enabled]

\* Mutant: the override only lowers the verbosity an instance asks for.
shouldLog_mostSevere(logger, level, moduleGlobal) ==
  LET effectiveLevel ==
        IF moduleGlobal # "null" /\ LOG_LEVELS[moduleGlobal] < LOG_LEVELS[logger.level]
        THEN moduleGlobal ELSE logger.level
  IN  logger.enabled /\ LOG_LEVELS[level] <= LOG_LEVELS[effectiveLevel]

\* Mutant: the enabled flag is not looked at.
shouldLog_ignoresEnabled(logger, level, moduleGlobal) ==
  LET effectiveLevel == IF moduleGlobal # "null" THEN moduleGlobal ELSE logger.level
  IN  LOG_LEVELS[level] <= LOG_LEVELS[effectiveLevel]

shouldLog(logger, level, moduleGlobal) ==
  LET effectiveLevel == IF moduleGlobal # "null" THEN moduleGlobal ELSE logger.level
  IN  logger.enabled /\ LOG_LEVELS[level] <= LOG_LEVELS[effectiveLevel]

\* the console function Logger.log picks for a level
consoleFn(level) ==
  IF level \in {"error", "fatal"} THEN "console.error"
  ELSE IF level = "warn" THEN "console.warn"
  ELSE "console.log"

\* debug(), info(), warn(), error(), fatal(), success(), trace(), start()
log ==
  \E i \in 1..Len(loggers), level \in Levels :
    /\ emitted' = [logged |-> TRUE, logger |-> i, level |-> level,
                   sink |-> IF shouldLog(loggers[i], level, moduleGlobalLogLevel)
                            THEN consoleFn(level) ELSE "none"]
    /\ created' = NotCreated
    /\ UNCHANGED <<isClientEnv, moduleGlobalLogLevel, overrideReset, loggers, registry,
                   loggerStore, settingsVars, coerceVars,
                   registered, reply>>

setModuleGlobalLevel ==
  \E level \in Levels \cup {"null"} :
    /\ moduleGlobalLogLevel' = level
    /\ overrideReset' = (level = "null" /\ (moduleGlobalLogLevel # "null" \/ overrideReset))
    /\ emitted' = NoLog
    /\ created' = NotCreated
    /\ UNCHANGED <<isClientEnv, loggers, registry, loggerStore, settingsVars, coerceVars,
                   registered, reply>>

\* set level(level)
setLevel ==
  \E i \in 1..Len(loggers), level \in Levels :
    /\ loggers' = [loggers EXCEPT ![i].level = level]
    /\ emitted' = NoLog
    /\ created' = NotCreated
    /\ UNCHANGED <<isClientEnv, moduleGlobalLogLevel, overrideReset, registry, loggerStore,
                   settingsVars, coerceVars,
                   registered, reply>>

\* set enabled(enabled)
setEnabled ==
  \E i \in 1..Len(loggers), enabled \in BOOLEAN :
    /\ loggers' = [loggers EXCEPT ![i].enabled = enabled]
    /\ emitted' = NoLog
    /\ created' = NotCreated
    /\ UNCHANGED <<isClientEnv, moduleGlobalLogLevel, overrideReset, registry, loggerStore,
                   settingsVars, coerceVars,
                   registered, reply>>

\* SpecLevels: one logger on the server, constructed without registration.
InitLevels ==
  /\ registered = {}
  /\ reply = NoReply
  /\ isClientEnv = FALSE
  /\ moduleGlobalLogLevel = "null"
  /\ overrideReset = FALSE
  /\ \E level \in Levels, enabled \in BOOLEAN :
       loggers = <<Logger("x", "component", level, FALSE, enabled)>>
  /\ registry = [name \in {} |-> 0]
  /\ loggerStore = [name \in {} |-> NoEntry]
  /\ emitted = NoLog
  /\ created = NotCreated
  /\ SettingsIdle
  /\ CoerceIdle

NextLevels ==
  \/ log
  \/ setModuleGlobalLevel
  \/ setLevel
  \/ setEnabled

SpecLevels == InitLevels /\ [][NextLevels]_vars

(***************************************************************************)
(* Construction: Logger.init, Registry.register, useLoggerStore.setLogger. *)
(***************************************************************************)
\* Mutant: register replaces the entry of a name that is present.
register_overwrites(items, name, item) ==
  [n \in (DOMAIN items) \cup {name} |-> IF n = name THEN item ELSE items[n]]

\* Registry.register: items.set(name, item) unless the name is present
register(items, name, item) ==
  IF name \in DOMAIN items THEN items ELSE items @@ (name :> item)

\* useLoggerStore.setLogger with a complete entry
setLogger(storeLoggers, entry) ==
  IF entry.name = "" THEN storeLoggers
  ELSE [name \in (DOMAIN storeLoggers) \cup {entry.name} |->
          IF name = entry.name THEN entry ELSE storeLoggers[name]]

\* this.unsubscribe?.(): the handle removes its own callback, once
release(logger) ==
  IF logger.unsubscribe = "live"
  THEN [logger EXCEPT !.listeners = @ - 1, !.unsubscribe = "called"]
  ELSE logger
\* Mutant: init subscribes without releasing the previous subscription.
subscribe_keepsPrevious(logger) ==
  [logger EXCEPT !.listeners = @ + 1, !.unsubscribe = "live"]
\* Logger.init on the client: this.unsubscribe?.() and, at the end,
\* this.unsubscribe = useLoggerStore.subscribe(selector, callback)
subscribe(logger) ==
  [release(logger) EXCEPT !.listeners = @ + 1, !.unsubscribe = "live"]

\* Logger.init on the client, an entry of that name being in the store
adopt(logger, existingEntry) ==
  [logger EXCEPT !.level = existingEntry.level, !.enabled = existingEntry.enabled,
                 !.errorVerbose = existingEntry.errorVerbose, !.type = existingEntry.type]

CtorNames == {"x", "y"}
CtorOptions ==
  {<<"service", "info", FALSE, TRUE>>, <<"class", "debug", TRUE, TRUE>>,
   <<"class", "warn", TRUE, FALSE>>, <<"service", "debug", FALSE, FALSE>>}
PersistedEntry ==
  [name |-> "x", level |-> "error", type |-> "hook", errorVerbose |-> TRUE, enabled |-> TRUE]

\* new Logger(name, type, level, errorVerbose, enabled, register): the
\* constructor and the part of init() that runs before it returns.  from is
\* the instance whose toJSON() gave the arguments (fromJSON), or 0.
construct(name, o, reg, from) ==
  /\ Len(loggers) < MaxLoggers
  /\ LET this == Logger(name, o[1], o[2], o[3], o[4])
         idx == Len(loggers) + 1
         existed == IF isClientEnv THEN name \in DOMAIN loggerStore
                    ELSE name \in DOMAIN registry
         existing == IF ~existed THEN NoEntry
                     ELSE IF isClientEnv THEN loggerStore[name]
                     ELSE toJSON(loggers[registry[name]])
     IN  /\ IF isClientEnv
            THEN /\ loggers' = Append(loggers,
                      subscribe(IF existed THEN adopt(this, loggerStore[name]) ELSE this))
                 /\ loggerStore' = IF existed THEN loggerStore
                                   ELSE setLogger(loggerStore, toJSON(this))
                 /\ UNCHANGED registry
            ELSE /\ loggers' = Append(loggers, this)
                 /\ registry' = IF reg THEN register(registry, name, idx) ELSE registry
                 /\ UNCHANGED loggerStore
         /\ created' = [made |-> TRUE, logger |-> idx, register |-> reg, existed |-> existed,
                        existing |-> existing, args |-> toJSON(this), from |-> from]
  /\ emitted' = NoLog
  /\ registered' = IF ~isClientEnv /\ reg THEN registered \cup {name} ELSE registered
  /\ UNCHANGED <<isClientEnv, moduleGlobalLogLevel, overrideReset, settingsVars, coerceVars>>

newLogger ==
  \E name \in CtorNames, o \in CtorOptions, reg \in BOOLEAN :
    construct(name, o, reg, 0) /\ reply' = NoReply

InitRegistry ==
  /\ registered = {}
  /\ reply = NoReply
  /\ isClientEnv \in BOOLEAN
  /\ moduleGlobalLogLevel = "null"
  /\ overrideReset = FALSE
  /\ loggers = <<>>
  /\ registry = [name \in {} |-> 0]
  /\ loggerStore \in {[name \in {} |-> NoEntry]} \cup
                     (IF isClientEnv THEN {[name \in {"x"} |-> PersistedEntry]} ELSE {})
  /\ emitted = NoLog
  /\ created = NotCreated
  /\ SettingsIdle
  /\ CoerceIdle

NextRegistry ==
  \/ newLogger
  \/ setEnabled

SpecRegistry == InitRegistry /\ [][NextRegistry]_vars

(***************************************************************************)
(* SpecRoundTrip: construction, the level and enabled setters, updates of   *)
(* the client store and Logger.fromJSON(logger.toJSON()).                  *)
(***************************************************************************)
\* the callback Logger.init subscribes to the instance's store entry
onEntry(logger, entry) ==
  IF logger.listeners > 0 /\ logger.name = entry.name
  THEN [logger EXCEPT !.level = entry.level, !.enabled = entry.enabled,
                      !.errorVerbose = entry.errorVerbose]
  ELSE logger

\* partial entries handed to useLoggerStore.setLogger after construction
StoreUpdates == {[field |-> "level", value |-> "trace"], [field |-> "type", value |-> "api"]}

\* useLoggerStore.getState().setLogger({name, ...partial}) on the client: the
\* entry is merged and the subscribed instances of that name are told.
storeUpdate ==
  \E name \in DOMAIN loggerStore, u \in StoreUpdates :
    /\ isClientEnv
    /\ LET entry == IF u.field = "level" THEN [loggerStore[name] EXCEPT !.level = u.value]
                    ELSE [loggerStore[name] EXCEPT !.type = u.value]
       IN  /\ loggerStore' = setLogger(loggerStore, entry)
           /\ loggers' = [i \in 1..Len(loggers) |-> onEntry(loggers[i], entry)]
    /\ emitted' = NoLog
    /\ created' = NotCreated
    /\ UNCHANGED <<isClientEnv, moduleGlobalLogLevel, overrideReset, registry,
                   settingsVars, coerceVars,
                   registered, reply>>

\* Logger.fromJSON(logger.toJSON())
fromJSON ==
  \E i \in 1..Len(loggers) :
    LET data == toJSON(loggers[i])
    IN  /\ construct(data.name, <<data.type, data.level, data.errorVerbose, data.enabled>>,
                     TRUE, i)
        /\ reply' = NoReply

NextRoundTrip ==
  \/ newLogger
  \/ setLevel
  \/ setEnabled
  \/ storeUpdate
  \/ fromJSON

SpecRoundTrip == InitRegistry /\ [][NextRoundTrip]_vars

(***************************************************************************)
(* The server registry and the route handlers of the logging API.          *)
(* The registry holds Logger instances: registry[name] is the index in     *)
(* loggers of the instance registered under name.                          *)
(***************************************************************************)
\* Registry.update: items.set(name, item) only if the name is present
update(items, name, item) ==
  IF name \in DOMAIN items THEN [items EXCEPT ![name] = item] ELSE items

\* Registry.list(): the entries by name
list(items) == [name \in DOMAIN items |-> toJSON(loggers[items[name]])]

\* what a registry call or a handler answered, with the state it started from
Reply(op, status, body, results, report) ==
  [op |-> op, status |-> status, body |-> body, results |-> results, report |-> report,
   counts |-> <<0, 0, 0>>, preLoggers |-> loggers, preRegistry |-> registry]

\* registry.register(item), item an instance constructed before
Registry_register ==
  \E i \in 1..Len(loggers) :
    /\ ~isClientEnv
    /\ registry' = register(registry, loggers[i].name, i)
    /\ registered' = registered \cup {loggers[i].name}
    /\ reply' = Reply("register", 0, <<i>>, <<>>, "success")
    /\ emitted' = NoLog
    /\ created' = NotCreated
    /\ UNCHANGED <<isClientEnv, moduleGlobalLogLevel, overrideReset, loggers, loggerStore,
                   settingsVars, coerceVars>>

\* registry.update(item): the last line it logs is "Item updated" (success)
\* or "Item not found" (error)
Registry_update ==
  \E i \in 1..Len(loggers) :
    /\ ~isClientEnv
    /\ registry' = update(registry, loggers[i].name, i)
    /\ reply' = Reply("update", 0, <<i>>, <<>>,
                      IF loggers[i].name \in DOMAIN registry THEN "success" ELSE "error")
    /\ emitted' = NoLog
    /\ created' = NotCreated
    /\ UNCHANGED <<isClientEnv, moduleGlobalLogLevel, overrideReset, loggers, loggerStore,
                   registered, settingsVars, coerceVars>>

(***************************************************************************)
(* Request bodies.  A field of a body is a JSON value or absent.           *)
(***************************************************************************)
Absent == [t |-> "undefined", v |-> ""]
JNull == [t |-> "null", v |-> ""]
JStr(str) == [t |-> "string", v |-> str]
JBool(b) == [t |-> "boolean", v |-> IF b THEN "true" ELSE "false"]
JNum(n) == [t |-> "number", v |-> ToString(n)]
Item(name, level, type, errorVerbose, enabled) ==
  [name |-> name, level |-> level, type |-> type, errorVerbose |-> errorVerbose,
   enabled |-> enabled]
\* a falsy value: undefined, null, "" , false, 0
Falsy(x) ==
  \/ x.t \in {"undefined", "null"}
  \/ x.t = "string" /\ x.v = ""
  \/ x.t = "boolean" /\ x.v = "false"
  \/ x.t = "number" /\ x.v = "0"
\* the strings of the model that name.trim() turns into ""
BlankStrings == {"", " "}
\* typeof name !== 'string' || !name.trim()
InvalidName(name) == name.t # "string" \/ name.v \in BlankStrings

\* the property names every object literal inherits from Object.prototype
ObjectPrototypeKeys ==
  {"constructor", "toString", "toLocaleString", "valueOf", "hasOwnProperty",
   "isPrototypeOf", "propertyIsEnumerable", "__proto__"}
\* typeof level === "string" && level in LOG_LEVELS
isValidLogLevel(level) ==
  level.t = "string" /\ level.v \in (DOMAIN LOG_LEVELS) \cup ObjectPrototypeKeys
VALID_LOG_TYPES ==
  {"service", "component", "hook", "class", "api", "package", "store", "provider", "unknown"}
\* VALID_LOG_TYPES.includes(type)
IsLogType(type) == type.t = "string" /\ type.v \in VALID_LOG_TYPES

\* validateLoggerUpdate(logConfigEntry).isValid
validateLoggerUpdate(entry) ==
  /\ ~InvalidName(entry.name)
  /\ entry.level = Absent \/ isValidLogLevel(entry.level)
  /\ entry.type = Absent \/ IsLogType(entry.type)
  /\ entry.errorVerbose = Absent \/ entry.errorVerbose.t = "boolean"
  /\ entry.enabled = Absent \/ entry.enabled.t = "boolean"

\* if (entry.level !== undefined) existingLogger.level = entry.level; likewise
\* errorVerbose and enabled; type is not assigned
applyUpdate(logger, entry) ==
  [logger EXCEPT
     !.level = IF entry.level # Absent THEN entry.level.v ELSE @,
     !.errorVerbose = IF entry.errorVerbose # Absent THEN entry.errorVerbose.v = "true" ELSE @,
     !.enabled = IF entry.enabled # Absent THEN entry.enabled.v = "true" ELSE @]

\* the bodies sent to the single PUT handlers
PutBodies ==
  {Item(JStr("x"), JStr("trace"), Absent, Absent, Absent),
   Item(JStr("x"), Absent, Absent, Absent, JBool(FALSE)),
   Item(JStr("x"), Absent, Absent, JBool(FALSE), JBool(TRUE)),
   Item(JStr("x"), Absent, Absent, Absent, Absent),
   Item(JStr("y"), JStr("trace"), Absent, JBool(FALSE), JBool(FALSE)),
   Item(JStr("x"), JStr("trace"), JStr("api"), JBool(FALSE), JBool(FALSE)),
   Item(JStr("x"), JStr("loud"), Absent, Absent, JBool(FALSE)),
   Item(JStr("x"), Absent, Absent, JStr("yes"), JBool(FALSE)),
   Item(JStr(" "), JStr("trace"), Absent, Absent, Absent),
   Item(Absent, Absent, Absent, Absent, JBool(FALSE))}

\* putServerLoggerHandler
putServerLoggerHandler ==
  \E body \in PutBodies :
    /\ ~isClientEnv
    /\ IF ~validateLoggerUpdate(body)
       THEN /\ reply' = Reply("put", 400, <<body>>, <<FALSE>>, "error")
            /\ UNCHANGED <<loggers, registry>>
       ELSE IF body.name.v \notin DOMAIN registry
       THEN /\ reply' = Reply("put", 404, <<body>>, <<FALSE>>, "error")
            /\ UNCHANGED <<loggers, registry>>
       ELSE LET i == registry[body.name.v]
            IN  /\ loggers' = [loggers EXCEPT ![i] = applyUpdate(@, body)]
                /\ registry' = update(registry, body.name.v, i)
                /\ reply' = Reply("put", 200, <<body>>, <<TRUE>>, "success")
    /\ emitted' = NoLog
    /\ created' = NotCreated
    /\ UNCHANGED <<isClientEnv, moduleGlobalLogLevel, overrideReset, loggerStore, registered,
                   settingsVars, coerceVars>>

\* putServerLoggerHandler as src/api/loggingRoutes.ts has it
putServerLoggerHandler_routes ==
  \E body \in PutBodies :
    /\ ~isClientEnv
    /\ IF InvalidName(body.name)
       THEN /\ reply' = Reply("put_routes", 400, <<body>>, <<FALSE>>, "error")
            /\ UNCHANGED <<loggers, registry>>
       ELSE IF body.name.v \notin DOMAIN registry
       THEN /\ reply' = Reply("put_routes", 404, <<body>>, <<FALSE>>, "error")
            /\ UNCHANGED <<loggers, registry>>
       ELSE IF \/ Falsy(body.level) \/ ~isValidLogLevel(body.level)
               \/ (~Falsy(body.type) /\ ~IsLogType(body.type))
               \/ body.errorVerbose.t # "boolean"
               \/ body.enabled.t # "boolean"
       THEN /\ reply' = Reply("put_routes", 400, <<body>>, <<FALSE>>, "error")
            /\ UNCHANGED <<loggers, registry>>
       ELSE LET i == registry[body.name.v]
            IN  /\ loggers' = [loggers EXCEPT ![i] = [@ EXCEPT
                        !.level = body.level.v,
                        !.errorVerbose = (body.errorVerbose.v = "true") \/ @,
                        !.enabled = (body.enabled.v = "true") \/ @]]
                /\ registry' = update(registry, body.name.v, i)
                /\ reply' = Reply("put_routes", 200, <<body>>, <<TRUE>>, "success")
    /\ emitted' = NoLog
    /\ created' = NotCreated
    /\ UNCHANGED <<isClientEnv, moduleGlobalLogLevel, overrideReset, loggerStore, registered,
                   settingsVars, coerceVars>>

(***************************************************************************)
(* putServerLoggersBatchHandler.                                           *)
(***************************************************************************)
MaxBatch == 2         \* SpecApi: number of entries of a batch body

\* an entry that is null
NullEntry == Item(JNull, JNull, JNull, JNull, JNull)
BatchEntries ==
  {Item(JStr("x"), JStr("trace"), Absent, Absent, Absent),
   Item(JStr("y"), Absent, Absent, JBool(FALSE), JBool(FALSE)),
   Item(JStr("x"), JStr("loud"), Absent, Absent, JBool(FALSE)),
   NullEntry}
BatchBodies == UNION {[1..n -> BatchEntries] : n \in 0..MaxBatch}

\* Mutant: the loop ends at the first entry that fails.
RECURSIVE processEntries_stopsAtFailure(_, _, _)
processEntries_stopsAtFailure(entries, lgs, results) ==
  IF entries = <<>> THEN [loggers |-> lgs, results |-> results]
  ELSE LET entry == Head(entries)
           ok == /\ entry # NullEntry
                 /\ validateLoggerUpdate(entry)
                 /\ entry.name.v \in DOMAIN registry
       IN  IF ~ok THEN [loggers |-> lgs, results |-> Append(results, FALSE)]
           ELSE processEntries_stopsAtFailure(Tail(entries),
                  [lgs EXCEPT ![registry[entry.name.v]] = applyUpdate(@, entry)],
                  Append(results, TRUE))

\* the for loop over the entries: the loggers after it and results[i].success
RECURSIVE processEntries(_, _, _)
processEntries(entries, lgs, results) ==
  IF entries = <<>> THEN [loggers |-> lgs, results |-> results]
  ELSE LET entry == Head(entries)
           ok == /\ entry # NullEntry
                 /\ validateLoggerUpdate(entry)
                 /\ entry.name.v \in DOMAIN registry
       IN  processEntries(Tail(entries),
             IF ok THEN [lgs EXCEPT ![registry[entry.name.v]] = applyUpdate(@, entry)] ELSE lgs,
             Append(results, ok))

\* results.filter(r => r.success).length and results.filter(r => !r.success).length
CountOf(results, success) == Cardinality({i \in 1..Len(results) : results[i] = success})

\* Mutant: any failure makes the whole batch a 400.
statusCode_allOrNothing(errors, successCount) ==
  IF errors = 0 THEN 200 ELSE 400

\* errors.length === 0 ? 200 : (successCount > 0 ? 207 : 400)
statusCode(errors, successCount) ==
  IF errors = 0 THEN 200 ELSE IF successCount > 0 THEN 207 ELSE 400

putServerLoggersBatchHandler ==
  \/ \E body \in BatchBodies :
       LET done == processEntries(body, loggers, <<>>)
           successCount == CountOf(done.results, TRUE)
           failureCount == CountOf(done.results, FALSE)
           errors == failureCount
       IN  /\ ~isClientEnv
           /\ loggers' = done.loggers
           /\ reply' = [Reply("batch", statusCode(errors, successCount), body, done.results,
                              IF errors = 0 THEN "success" ELSE "warn")
                          EXCEPT !.counts = <<Len(body), successCount, failureCount>>]
           /\ emitted' = NoLog
           /\ created' = NotCreated
           /\ UNCHANGED <<isClientEnv, moduleGlobalLogLevel, overrideReset, registry, loggerStore,
                          registered, settingsVars, coerceVars>>
  \* !Array.isArray(body)
  \/ /\ ~isClientEnv
     /\ reply' = Reply("batch", 400, <<>>, <<>>, "notArray")
     /\ emitted' = NoLog
     /\ created' = NotCreated
     /\ UNCHANGED <<isClientEnv, moduleGlobalLogLevel, overrideReset, loggers, registry,
                    loggerStore, registered, settingsVars, coerceVars>>

(***************************************************************************)
(* postServerLoggerHandler.                                                *)
(***************************************************************************)
\* bodies whose enabled field, where present, is a boolean
PostBodies ==
  {Item(JStr("x"), JStr("info"), JStr("service"), JBool(TRUE), JBool(TRUE)),
   Item(JStr("y"), JStr("debug"), JStr("class"), JBool(FALSE), JBool(FALSE)),
   Item(JStr("y"), JStr("debug"), JStr("class"), JBool(FALSE), Absent),
   Item(JStr("x"), JStr("constructor"), JStr("service"), JBool(TRUE), JBool(TRUE)),
   Item(JStr("x"), Absent, JStr("service"), JBool(TRUE), JBool(TRUE)),
   Item(JStr("x"), JStr("info"), JStr("bogus"), JBool(TRUE), JBool(TRUE)),
   Item(JStr("x"), JStr("info"), Absent, JBool(TRUE), JBool(TRUE)),
   Item(JStr("x"), JStr("info"), JStr("service"), JStr("yes"), JBool(TRUE)),
   Item(JStr("x"), JStr("info"), JStr("service"), Absent, JBool(TRUE)),
   Item(JStr(" "), JStr("info"), JStr("service"), JBool(TRUE), JBool(TRUE)),
   Item(Absent, JStr("info"), JStr("service"), JBool(TRUE), JBool(TRUE))}

\* the checks postServerLoggerHandler makes before it creates the logger
postAccepts(body) ==
  /\ ~InvalidName(body.name)
  /\ ~Falsy(body.level) /\ isValidLogLevel(body.level)
  /\ IsLogType(body.type)
  /\ body.errorVerbose.t = "boolean"

\* Logger.fromJSON(body) runs the constructor, which registers the instance;
\* the registry.register(newLogger) that follows finds the name present.  An
\* absent enabled takes the constructor's default, true.
postServerLoggerHandler ==
  \E body \in PostBodies :
    /\ ~isClientEnv
    /\ IF ~postAccepts(body)
       THEN /\ reply' = Reply("post", 400, <<body>>, <<FALSE>>, "error")
            /\ emitted' = NoLog
            /\ created' = NotCreated
            /\ UNCHANGED <<isClientEnv, moduleGlobalLogLevel, overrideReset, loggers, registry,
                           loggerStore, registered, settingsVars, coerceVars>>
       ELSE /\ construct(body.name.v,
                         <<body.type.v, body.level.v, body.errorVerbose.v = "true",
                           body.enabled = Absent \/ body.enabled.v = "true">>, TRUE, 0)
            /\ reply' = Reply("post", 200, <<body>>, <<TRUE>>, "success")

InitApi ==
  /\ isClientEnv = FALSE
  /\ moduleGlobalLogLevel = "null"
  /\ overrideReset = FALSE
  /\ loggers = <<>>
  /\ registry = [name \in {} |-> 0]
  /\ loggerStore = [name \in {} |-> NoEntry]
  /\ emitted = NoLog
  /\ created = NotCreated
  /\ registered = {}
  /\ reply = NoReply
  /\ SettingsIdle
  /\ CoerceIdle

\* SpecRegistryOps: instances constructed with or without registration and
\* direct calls of the registry.
NextRegistryOps ==
  \/ newLogger
  \/ Registry_register
  \/ Registry_update

SpecRegistryOps == InitApi /\ [][NextRegistryOps]_vars

\* SpecApi: the POST and PUT handlers, the registry being empty at the start.
NextApi ==
  \/ postServerLoggerHandler
  \/ putServerLoggerHandler
  \/ putServerLoggerHandler_routes

SpecApi == InitApi /\ [][NextApi]_vars

\* SpecBatch: the batch handler, on a registry that holds x, or x and y.
InitBatch ==
  /\ isClientEnv = FALSE
  /\ moduleGlobalLogLevel = "null"
  /\ overrideReset = FALSE
  /\ loggers \in {<<Logger("x", "service", "info", TRUE, TRUE)>>,
                  <<Logger("x", "service", "info", TRUE, TRUE),
                    Logger("y", "class", "debug", TRUE, TRUE)>>}
  /\ registry = [name \in {loggers[i].name : i \in 1..Len(loggers)} |->
                   CHOOSE i \in 1..Len(loggers) : loggers[i].name = name]
  /\ registered = DOMAIN registry
  /\ loggerStore = [name \in {} |-> NoEntry]
  /\ emitted = NoLog
  /\ created = NotCreated
  /\ reply = NoReply
  /\ SettingsIdle
  /\ CoerceIdle

NextBatch == putServerLoggersBatchHandler

SpecBatch == InitBatch /\ [][NextBatch]_vars

(***************************************************************************)
(* Claims about the Logger.                                                *)
(***************************************************************************)
\* the ranking the specification states
StatedRank ==
  "fatal" :> 0 @@ "error" :> 1 @@ "warn" :> 2 @@ "success" :> 3 @@ "info" :> 4 @@
  "start" :> 4 @@ "debug" :> 5 @@ "trace" :> 6
Emits == emitted.sink # "none"

\* C8: with no override set, a call at level L on an enabled logger reaches a
\* console sink iff rank(L) <= rank(instance level); a logger at warn emits
\* exactly on warn, error and fatal.
C8_InstanceLevelFilter ==
  (emitted.logged /\ moduleGlobalLogLevel = "null" /\ loggers[emitted.logger].enabled)
    => /\ Emits <=> StatedRank[emitted.level] <= StatedRank[loggers[emitted.logger].level]
       /\ loggers[emitted.logger].level = "warn"
            => (Emits <=> emitted.level \in {"warn", "error", "fatal"})

C8_Witness ==
  /\ emitted.logged /\ moduleGlobalLogLevel = "null" /\ loggers[emitted.logger].enabled
  /\ loggers[emitted.logger].level = "warn"
  /\ emitted.level = "success"
  /\ ~Emits

\* C9: while the override is set, an enabled logger emits a call at level L
\* iff rank(L) <= rank(override), whatever its own level; once the override
\* has been reset to null it emits by its own level again.
C9_OverrideReplacesLevel ==
  (emitted.logged /\ loggers[emitted.logger].enabled)
    => /\ moduleGlobalLogLevel # "null"
            => (Emits <=> StatedRank[emitted.level] <= StatedRank[moduleGlobalLogLevel])
       /\ overrideReset
            => (Emits <=> StatedRank[emitted.level] <= StatedRank[loggers[emitted.logger].level])

C9_Witness ==
  /\ emitted.logged /\ loggers[emitted.logger].enabled
  /\ moduleGlobalLogLevel = "debug"
  /\ loggers[emitted.logger].level = "error"
  /\ emitted.level = "info"
  /\ Emits

\* the entry now held under the name of the logger just constructed
CurrentEntry ==
  LET name == loggers[created.logger].name IN
  IF isClientEnv THEN loggerStore[name] ELSE toJSON(loggers[registry[name]])
SameConfig(a, b) ==
  a.level = b.level /\ a.type = b.type /\ a.errorVerbose = b.errorVerbose
    /\ a.enabled = b.enabled

\* C10 (as claimed): a Logger constructed with registration requested under a
\* name that already has an entry (server registry or client store) takes the
\* entry's level, type, errorVerbose and enabled; the entry is unchanged.
C10_NewInstanceAdoptsEntry ==
  (created.made /\ created.register /\ created.existed)
    => /\ SameConfig(loggers[created.logger], created.existing)
       /\ CurrentEntry = created.existing

\* C10 (what Logger.init does): on the client a Logger constructed under a
\* name that has a store entry takes the entry's level, type, errorVerbose and
\* enabled; on the server one constructed with registration requested under a
\* registered name keeps its constructor arguments and is not registered; the
\* existing entry is unchanged in both cases.
C10_FirstRegisteredKept ==
  (created.made /\ created.existed)
    => /\ isClientEnv => SameConfig(loggers[created.logger], created.existing)
       /\ (~isClientEnv /\ created.register)
            => /\ SameConfig(loggers[created.logger], created.args)
               /\ registry[loggers[created.logger].name] # created.logger
       /\ CurrentEntry = created.existing

\* C11 (as claimed): Logger.fromJSON(logger.toJSON()) yields an instance whose
\* name, level, type, errorVerbose and enabled are those of the original, on
\* the server and on the client.
C11_RoundTrip ==
  (created.made /\ created.from # 0)
    => /\ loggers[created.logger].name = loggers[created.from].name
       /\ SameConfig(loggers[created.logger], loggers[created.from])

(***************************************************************************)
(* Claims about the registry and the route handlers.                       *)
(***************************************************************************)
\* the name a registry call was made with
CalledName == reply.preLoggers[reply.body[1]].name

\* C12: after any sequence of register and update calls list() has exactly
\* one entry per name ever registered, each keyed by its item's name; register
\* of a name already present leaves the entry unchanged; update of a name not
\* present reports failure (its error line) and leaves the registry unchanged;
\* no call removes an entry.
C12_RegistryInvariant ==
  /\ DOMAIN list(registry) = registered
  /\ \A name \in DOMAIN registry : list(registry)[name].name = name
  /\ reply.op \in {"register", "update"} =>
       /\ DOMAIN reply.preRegistry \subseteq DOMAIN registry
       /\ (reply.op = "register" /\ CalledName \in DOMAIN reply.preRegistry)
            => (registry = reply.preRegistry /\ loggers = reply.preLoggers)
       /\ (reply.op = "update" /\ CalledName \notin DOMAIN reply.preRegistry)
            => (reply.report = "error" /\ registry = reply.preRegistry
                  /\ loggers = reply.preLoggers)

C12_Witness ==
  /\ reply.op = "register"
  /\ CalledName \in DOMAIN reply.preRegistry
  /\ reply.preRegistry[CalledName] # reply.body[1]
  /\ registry = reply.preRegistry

\* an entry of a batch succeeds: not null, valid, its name registered
EntryOk(entry) ==
  /\ entry # NullEntry
  /\ validateLoggerUpdate(entry)
  /\ entry.name.v \in DOMAIN reply.preRegistry
\* a valid entry that names a logger that is not registered
EntryUnknown(entry) ==
  /\ entry # NullEntry
  /\ validateLoggerUpdate(entry)
  /\ entry.name.v \notin DOMAIN reply.preRegistry
IsBatch == reply.op = "batch" /\ reply.report # "notArray"
\* a batch of N >= 1 otherwise valid entries, exactly one naming an unknown logger
OneUnknownBatch ==
  /\ IsBatch
  /\ \E i \in 1..Len(reply.body) :
       /\ EntryUnknown(reply.body[i])
       /\ \A j \in (1..Len(reply.body)) \ {i} : EntryOk(reply.body[j])

\* C13 (as claimed): for every N >= 1, a batch of N otherwise valid items of
\* which exactly one names an unregistered logger answers successCount = N-1,
\* failureCount = 1 and status 207.
C13_OneUnknownIs207 ==
  OneUnknownBatch =>
    /\ reply.counts[2] = Len(reply.body) - 1
    /\ reply.counts[3] = 1
    /\ reply.status = 207

\* C13 (amended): such a batch answers successCount = N-1 and failureCount = 1;
\* the status is 207 for N >= 2 and 400 for N = 1, where nothing succeeded.
C13_OneUnknownOfSeveralIs207 ==
  OneUnknownBatch =>
    /\ reply.counts[2] = Len(reply.body) - 1
    /\ reply.counts[3] = 1
    /\ reply.status = IF Len(reply.body) >= 2 THEN 207 ELSE 400

C13_Witness ==
  /\ OneUnknownBatch
  /\ Len(reply.body) = 2
  /\ reply.counts = <<2, 1, 1>>
  /\ reply.status = 207

AllSucceeded == \A i \in 1..Len(reply.body) : EntryOk(reply.body[i])
NoneSucceeded == \A i \in 1..Len(reply.body) : ~EntryOk(reply.body[i])
\* one result per item, in order, and the counts
BatchResults ==
  /\ Len(reply.results) = Len(reply.body)
  /\ \A i \in 1..Len(reply.body) : reply.results[i] <=> EntryOk(reply.body[i])
  /\ reply.counts[1] = Len(reply.body)
  /\ reply.counts[2] = Cardinality({i \in 1..Len(reply.body) : EntryOk(reply.body[i])})
  /\ reply.counts[2] + reply.counts[3] = Len(reply.body)

\* C14 (as claimed): a batch of N items answers one result per item with
\* totalProcessed = N and successCount + failureCount = N, an item succeeding
\* iff it is valid and names a registered logger; the status is 200 iff every
\* item succeeded, 207 iff some but not all, 400 iff none succeeded or the
\* body is not an array.
C14_BatchStatus ==
  reply.op = "batch" =>
    IF reply.report = "notArray" THEN reply.status = 400
    ELSE /\ BatchResults
         /\ reply.status = 200 <=> AllSucceeded
         /\ reply.status = 207 <=> (~AllSucceeded /\ ~NoneSucceeded)
         /\ reply.status = 400 <=> NoneSucceeded

\* C14 (amended): the same for N >= 1; an empty array, in which every item
\* and no item succeeded, is answered 200 with all counts 0.
C14_BatchStatusNonEmpty ==
  reply.op = "batch" =>
    IF reply.report = "notArray" THEN reply.status = 400
    ELSE /\ BatchResults
         /\ reply.status = 200 <=> AllSucceeded
         /\ reply.status = 207 <=> (~AllSucceeded /\ ~NoneSucceeded)
         /\ reply.status = 400 <=> (NoneSucceeded /\ Len(reply.body) >= 1)

C14_Witness ==
  /\ IsBatch
  /\ Len(reply.body) = 2
  /\ ~validateLoggerUpdate(reply.body[1])
  /\ reply.results = <<FALSE, TRUE>>
  /\ reply.status = 207
  /\ loggers # reply.preLoggers

\* what the claim says a PUT body makes of the logger it names
PutExpected(logger, body) ==
  [logger EXCEPT
     !.level = IF body.level = Absent THEN @ ELSE body.level.v,
     !.errorVerbose = IF body.errorVerbose = Absent THEN @ ELSE body.errorVerbose.v = "true",
     !.enabled = IF body.enabled = Absent THEN @ ELSE body.enabled.v = "true"]

\* C15 (as claimed): a PUT changes a logger only when its body passes the
\* per-field validation and its name is registered; it then sets exactly the
\* fields of level, errorVerbose and enabled present in the body (false
\* included), none of them being required, and leaves the others and type;
\* an invalid body yields 400 and an unknown name 404, no logger changing.
C15_PutSetsPresentFields ==
  reply.op \in {"put", "put_routes"} =>
    LET body == reply.body[1]
        pre == reply.preLoggers
    IN  IF ~validateLoggerUpdate(body) THEN reply.status = 400 /\ loggers = pre
        ELSE IF body.name.v \notin DOMAIN reply.preRegistry
        THEN reply.status = 404 /\ loggers = pre
        ELSE /\ reply.status = 200
             /\ loggers = [pre EXCEPT ![reply.preRegistry[body.name.v]] =
                              PutExpected(@, body)]

\* C15 for the handler of part_007 alone.
C15_PutSetsPresentFields_handlers ==
  reply.op = "put" =>
    LET body == reply.body[1]
        pre == reply.preLoggers
    IN  IF ~validateLoggerUpdate(body) THEN reply.status = 400 /\ loggers = pre
        ELSE IF body.name.v \notin DOMAIN reply.preRegistry
        THEN reply.status = 404 /\ loggers = pre
        ELSE /\ reply.status = 200
             /\ loggers = [pre EXCEPT ![reply.preRegistry[body.name.v]] =
                              PutExpected(@, body)]

\* the five fields as the claim wants them
AllFiveValid(body) ==
  /\ body.name.t = "string" /\ body.name.v \notin BlankStrings
  /\ body.level.t = "string" /\ body.level.v \in Levels
  /\ body.type.t = "string" /\ body.type.v \in VALID_LOG_TYPES
  /\ body.errorVerbose.t = "boolean"
  /\ body.enabled.t = "boolean"

\* C16 (as claimed): POST answers 400 and registers nothing whenever one of
\* name, level, type, errorVerbose, enabled is missing or ill-typed; only a
\* body with all five valid creates a logger.
C16_PostRequiresAllFields ==
  reply.op = "post" =>
    IF AllFiveValid(reply.body[1])
    THEN reply.status = 200 /\ Len(loggers) = Len(reply.preLoggers) + 1
    ELSE reply.status = 400 /\ loggers = reply.preLoggers /\ registry = reply.preRegistry

(***************************************************************************)
(* The settings route handlers (makeSettingsHandlers): POST creates keys,  *)
(* PUT updates keys.  A handler runs up to its next await in one step; the *)
(* awaits are on plain values, so the continuations in flight resume in    *)
(* the order in which they were suspended.                                 *)
(***************************************************************************)
MaxRequests == 2      \* SpecHandlers: number of requests in one behaviour

MkUndefined == [t |-> "undefined", n |-> 0, s |-> <<>>, k |-> <<>>]
MkFunction == [t |-> "function", n |-> 0, s |-> <<>>, k |-> <<>>]
KeyToString == <<"t", "o", "S", "t", "r", "i", "n", "g">>
KeyValueOf == <<"v", "a", "l", "u", "e", "O", "f">>
\* names the live object (an object literal) inherits from Object.prototype
InheritedKeys == {KeyToString, KeyValueOf}

\* getValue(key): this._settings[key], a property read: the object's own
\* entry, else what it inherits, else undefined
getValue(s, key) ==
  IF key \in DOMAIN s THEN s[key]
  ELSE IF key \in InheritedKeys THEN MkFunction
  ELSE MkUndefined

\* setValue(key, value), the assignment: this._settings[key] = value
setValue(s, key, value) == Spread(s, Obj1(key, value))

\* POST: if (existing !== undefined) -> 409
postRejects(existing) == existing # MkUndefined
\* PUT: if (existing === undefined) -> 404
putRejects(existing) == existing = MkUndefined

\* the parsed request bodies: null, or the entries of an object in the order
\* Object.entries lists them
NullBody == <<<<<<"null">>, MkNull>>>>
HandlerBodies ==
  { <<>>,
    <<<<KeyA, MkNum(1)>>>>, <<<<KeyA, MkNull>>>>, <<<<KeyB, MkNum(1)>>>>,
    <<<<KeyToString, MkNum(1)>>>>,
    <<<<KeyB, MkNum(1)>>, <<KeyA, MkNum(2)>>>>,
    <<<<KeyA, MkNum(2)>>, <<KeyB, MkNum(1)>>>> }
HandlerSettings == {EmptyObj, Obj1(KeyA, MkNum(0)), Obj1(KeyA, MkNull)}

\* a request in flight; pre and preStore are the live object and the stored
\* object when the request was received
Request(id, op, entries, i, existing, phase) ==
  [id |-> id, op |-> op, entries |-> entries, i |-> i, existing |-> existing, phase |-> phase,
   pre |-> settings, preStore |-> store]
\* a step of a handler: what it did (read, set, reply), to which key, whether
\* the live object had the key as its own just before, and the live object
\* just before the step
Step(ev, r, status) ==
  [ev |-> ev, id |-> r.id, op |-> r.op, entries |-> r.entries, i |-> r.i,
   status |-> status, pre |-> settings, reqPre |-> r.pre, reqPreStore |-> r.preStore]
\* a storage.save(this._settings) that setValue called and nobody awaits:
\* FileStorage.save serialises the live object only after its awaits, so the
\* object is still the live one while the write is outstanding
PendingSave(r, obj) ==
  [id |-> r.id, op |-> r.op, entries |-> r.entries, i |-> r.i, pre |-> r.pre,
   preStore |-> r.preStore, arg |-> obj, aliased |-> TRUE, phase |-> "writing"]
NoRequest == Request(0, "none", <<>>, 0, MkUndefined, "none")

\* `const body = await req.json()` resumed: Object.entries(body) throws on
\* null (500), an object without entries is answered at once, otherwise the
\* first key is read and the handler waits on the value
receive ==
  \E op \in {"POST", "PUT"}, body \in HandlerBodies \cup {NullBody} :
    /\ started < MaxRequests
    /\ started' = started + 1
    /\ LET r == Request(started + 1, op, body, 1, MkUndefined, "read")
       IN  IF body = NullBody
           THEN /\ last' = Step("reply", r, 500)
                /\ UNCHANGED requests
           ELSE IF body = <<>>
           THEN /\ last' = Step("reply", r, 200)
                /\ UNCHANGED requests
           ELSE /\ requests' =
                     Append(requests, [r EXCEPT !.existing = getValue(settings, body[1][1])])
                /\ last' = Step("read", r, 0)
    /\ UNCHANGED <<cfg, env, settings, store, calls, coerceVars, loggerVars>>

\* `const existing = await manager.getValue(key)` resumed: the existence
\* check, then either the error reply or manager.setValue(key, value), which
\* assigns in place and calls storage.save without waiting for it
decide ==
  /\ requests # <<>>
  /\ Head(requests).phase = "read"
  /\ LET r == Head(requests)
         key == r.entries[r.i][1]
         value == r.entries[r.i][2]
         rejected == IF r.op = "POST" THEN postRejects(r.existing)
                     ELSE putRejects(r.existing)
     IN  IF rejected
         THEN /\ requests' = Tail(requests)
              /\ last' = Step("reply", r, IF r.op = "POST" THEN 409 ELSE 404)
              /\ UNCHANGED <<settings, store, calls>>
         ELSE /\ settings' = setValue(settings, key, value)
              /\ IF cfg.backend = "memory"
                 THEN /\ store' = save(cfg, store, settings')
                      /\ UNCHANGED calls
                 ELSE /\ calls' = Append(MutatedInPlace(calls, settings'),
                                         PendingSave(r, settings'))
                      /\ UNCHANGED store
              /\ requests' = Append(Tail(requests), [r EXCEPT !.phase = "wrote"])
              /\ last' = Step("set", r, 0)
  /\ UNCHANGED <<cfg, env, started, coerceVars, loggerVars>>

\* `await manager.setValue(key, value)` resumed: the next entry's key is
\* read, or the loop is over and the handler answers { success: true }
continue ==
  /\ requests # <<>>
  /\ Head(requests).phase = "wrote"
  /\ LET r == Head(requests)
     IN  IF r.i < Len(r.entries)
         THEN /\ requests' =
                   Append(Tail(requests),
                          [r EXCEPT !.i = r.i + 1, !.phase = "read",
                                    !.existing = getValue(settings, r.entries[r.i + 1][1])])
              /\ last' = Step("read", [r EXCEPT !.i = r.i + 1], 0)
         ELSE /\ requests' = Tail(requests)
              /\ last' = Step("reply", r, 200)
  /\ UNCHANGED <<cfg, env, settings, store, calls, started, coerceVars, loggerVars>>

\* An outstanding write of FileStorage.save is answered once the handlers'
\* continuations have run: writeFile resolves and the file holds the object,
\* or mkdir/writeFile rejects and the promise nobody holds rejects.
writeLands ==
  \E i \in 1..Len(calls) :
    /\ requests = <<>>
    /\ calls[i].phase = "writing"
    /\ store' = save(cfg, store, calls[i].arg)
    /\ calls' = [calls EXCEPT ![i].phase = "landed", ![i].aliased = FALSE]
    /\ last' = Step("saved", calls[i], 0)
    /\ UNCHANGED <<cfg, env, settings, started, requests, coerceVars, loggerVars>>

writeFails ==
  \E i \in 1..Len(calls) :
    /\ requests = <<>>
    /\ calls[i].phase = "writing"
    /\ calls' = [calls EXCEPT ![i].phase = "failed", ![i].aliased = FALSE]
    /\ last' = Step("saveFailed", calls[i], 0)
    /\ UNCHANGED <<cfg, env, settings, store, started, requests, coerceVars, loggerVars>>

HandlerBackends == {"memory", "file"}

InitHandlers ==
  /\ \E backend \in HandlerBackends :
       cfg = [prefix |-> <<>>, allowExtra |-> FALSE, backend |-> backend, ttl |-> FALSE,
              defaults |-> EmptyObj]
  /\ env = EmptyObj
  /\ settings \in HandlerSettings
  /\ store = EmptyObj
  /\ calls = <<>>
  /\ started = 0
  /\ last = Step("none", NoRequest, 0)
  /\ requests = <<>>
  /\ CoerceIdle
  /\ LoggerIdle

NextHandlers == receive \/ decide \/ continue \/ writeLands \/ writeFails

SpecHandlers == InitHandlers /\ [][NextHandlers]_vars

\* the key and the value of the entry a handler step is about
StepKey == last.entries[last.i][1]
StepValue == last.entries[last.i][2]
\* the live object had the key as its own entry just before the step
StepHadKey == StepKey \in DOMAIN last.pre

\* C17 (as claimed): a POST never assigns a key the live object already has
\* and answers 409 for such a key; a PUT never assigns a key the live object
\* does not have and answers 404 for such a key; and in every state, for
\* every key, exactly one of POST and PUT accepts a body with that one key.
C17_CreateOnlyUpdateOnly ==
  /\ (last.ev = "set" /\ last.op = "POST") => ~StepHadKey
  /\ (last.ev = "set" /\ last.op = "PUT") => StepHadKey
  /\ (last.ev = "reply" /\ last.status = 409) => StepHadKey
  /\ (last.ev = "reply" /\ last.status = 404) => ~StepHadKey
  /\ \A key \in {KeyA, KeyB, KeyToString} :
       postRejects(getValue(settings, key)) # putRejects(getValue(settings, key))

\* C17 for requests that do not overlap and keys that are not names of
\* Object.prototype.
C17_SequentialOwnKeys ==
  (Len(requests) <= 1 /\ last.ev \in {"set", "reply"} /\ last.status \in {0, 404, 409}
     /\ StepKey \notin InheritedKeys /\ started = 1)
    => /\ (last.ev = "set" /\ last.op = "POST") => ~StepHadKey
       /\ (last.ev = "set" /\ last.op = "PUT") => StepHadKey
       /\ (last.ev = "reply" /\ last.status = 409) => StepHadKey
       /\ (last.ev = "reply" /\ last.status = 404) => ~StepHadKey

\* the saves a request started, and those of them that are on the disk
SavesOf(id) == {i \in 1..Len(calls) : calls[i].id = id}
Persisted(id) == \A i \in SavesOf(id) : calls[i].phase = "landed"

\* C25 (as claimed): when a POST or PUT handler answers { success: true },
\* every storage.save the request started has completed successfully, with
\* every backend: none is outstanding and none has failed.
C25_SuccessAfterSave ==
  (last.ev = "reply" /\ last.status = 200 /\ last.entries # <<>>)
    => (cfg.backend = "memory" \/ (SavesOf(last.id) # {} /\ Persisted(last.id)))

\* C25 with InMemoryStorage, whose save has no await: the store holds every
\* entry of the body when the handler answers { success: true }.
C25_MemorySuccessAfterSave ==
  (last.ev = "reply" /\ last.status = 200 /\ cfg.backend = "memory" /\ Len(requests) = 0
     /\ started = 1)
    => \A j \in 1..Len(last.entries) :
         /\ last.entries[j][1] \in DOMAIN store
         /\ store[last.entries[j][1]] = last.entries[j][2]

\* C26 (as claimed): a request answered 409 or 404, the only request made,
\* leaves the live object and the stored object as they were when it was
\* received, and has started no save.
C26_RejectedChangesNothing ==
  (last.ev = "reply" /\ last.status \in {404, 409} /\ started = 1)
    => /\ settings = last.reqPre
       /\ store = last.reqPreStore
       /\ calls = <<>>

\* C26 for a request rejected at its first key.
C26_RejectedAtFirstKey ==
  (last.ev = "reply" /\ last.status \in {404, 409} /\ started = 1 /\ last.i = 1)
    => /\ settings = last.reqPre
       /\ store = last.reqPreStore
       /\ calls = <<>>

(***************************************************************************)
(* Loading from a backend whose persisted data is text: FileStorage reads  *)
(* and parses the file, RedisStorage (hash) parses every field.  Here the  *)
(* store is the text itself: the file's content (or NoFile), or the hash   *)
(* as a function from field names to texts.                                *)
(***************************************************************************)
NoFile == <<"ENOENT">>
FileTexts ==
  { NoFile,
    <<"{", "\"", "a", "\"", ":", "1", "}">>,
    <<"{", "\"", "a", "\"", ":", "1">>,
    <<"{", "}">>,
    <<"n", "u", "l", "l">>,
    <<"[", "7", "]">>,
    <<"x">>,
    <<>> }
HashChoices ==
  { EmptyObj,
    Obj1(KeyA, <<"1">>),
    Obj1(KeyA, <<"x">>),
    Obj1(KeyA, <<"{">>),
    Spread(Obj1(KeyA, <<"1">>), Obj1(KeyB, <<"\"", "x">>)) }

\* the own enumerable entries a spread { ...v } copies: the members of an
\* object (a repeated key keeps its last value), the items of an array and
\* the characters of a string under their indices, nothing for other values
IndexKey(i) == <<DigitChars[i]>>
Entries(v) ==
  IF v.t = "object"
  THEN [key \in {v.k[i].s : i \in 1..Len(v.k)} |->
          LET i == CHOOSE i \in 1..Len(v.k) :
                     v.k[i].s = key /\ \A j \in (i + 1)..Len(v.k) : v.k[j].s # key
          IN  v.k[i].k[1]]
  ELSE IF v.t = "array" THEN [key \in {IndexKey(i) : i \in 1..Len(v.k)} |->
          v.k[CHOOSE i \in 1..Len(v.k) : IndexKey(i) = key]]
  ELSE IF v.t = "string" THEN [key \in {IndexKey(i) : i \in 1..Len(v.s)} |->
          MkStr(<<v.s[CHOOSE i \in 1..Len(v.s) : IndexKey(i) = key]>>)]
  ELSE EmptyObj

\* FileStorage.load: JSON.parse(data); a missing file gives {}, every other
\* error (the SyntaxError of JSON.parse has no code) is thrown again
FileStorage_load(data) ==
  IF data = NoFile THEN [ok |-> TRUE, v |-> MkObj(<<>>)]
  ELSE IF JSONparse(data).ok THEN [ok |-> TRUE, v |-> JSONparse(data).v]
  ELSE [ok |-> FALSE, v |-> MkNull]

\* RedisStorage.load: hgetall, then for every field JSON.parse(v), and in the
\* catch the text v itself
RedisStorage_load(hash) ==
  [k \in DOMAIN hash |-> IF JSONparse(hash[k]).ok THEN JSONparse(hash[k]).v ELSE MkStr(hash[k])]

\* The read of a text backend lands and load() settles; the manager merges
\* { ...this._settings, ...(loaded ?? {}) } or its call rejects.
loadParses ==
  \E i \in 1..Len(calls) :
    /\ calls[i].phase = "reading"
    /\ MayLand(i)
    /\ IF cfg.backend = "redis" THEN LoadMerge(i, RedisStorage_load(store))
       ELSE IF FileStorage_load(store).ok THEN LoadMerge(i, Entries(FileStorage_load(store).v))
       ELSE /\ calls' = Remove(calls, i)
            /\ last' = Event("settled", calls[i], FALSE)
            /\ UNCHANGED <<cfg, env, settings, store, started, coerceVars, loggerVars,
                           requests>>

InitTexts ==
  /\ cfg \in [prefix : {<<"p">>}, allowExtra : {FALSE}, backend : {"file", "redis"},
              ttl : {FALSE}, defaults : DefaultsChoices]
  /\ env \in {EmptyObj, Obj1(<<"P", "_", "A">>, <<"3">>)}
  /\ store \in (IF cfg.backend = "file" THEN FileTexts ELSE HashChoices)
  /\ settings = cfg.defaults
  /\ calls = <<>>
  /\ started = 0
  /\ last = NewEvent
  /\ requests = <<>>
  /\ CoerceIdle
  /\ LoggerIdle

NextTexts == initialize \/ refresh \/ loadParses \/ loadRejects

SpecTexts == InitTexts /\ [][NextTexts]_vars

\* the persisted data is not valid JSON
CorruptStored ==
  IF cfg.backend = "file" THEN store # NoFile /\ ~JSONparse(store).ok
  ELSE \E k \in DOMAIN store : ~JSONparse(store[k]).ok
LoadCallSettled == last.ev = "settled" /\ last.op \in {"initialize", "refresh"}

\* C18 (as claimed): with any backend, when the persisted data is not valid
\* JSON, initialize() and refresh() reject.
C18_CorruptDataRejects ==
  (LoadCallSettled /\ CorruptStored) => ~last.ok

\* C18 for the file backend alone.
C18_CorruptFileRejects ==
  (LoadCallSettled /\ CorruptStored /\ cfg.backend = "file") => ~last.ok

(***************************************************************************)
(* Overlapping set() calls that write the same key.                        *)
(***************************************************************************)
SameKeyPartials == {Obj1(KeyA, MkNum(5)), Obj1(KeyA, MkNum(6))}

setSameKey == setOneOf(SameKeyPartials)

InitRace ==
  /\ cfg \in {c \in [prefix : {<<>>}, allowExtra : {FALSE}, backend : Backends,
                     ttl : BOOLEAN, defaults : DefaultsChoices] :
                c.ttl => c.backend = "redis"}
  /\ env = EmptyObj
  /\ store \in {EmptyObj, Obj1(KeyA, MkNum(0))}
  /\ settings = cfg.defaults
  /\ calls = <<>>
  /\ started = 0
  /\ last = NewEvent
  /\ requests = <<>>
  /\ CoerceIdle
  /\ LoggerIdle

NextRace == setSameKey \/ saveResumes \/ saveSettles \/ saveRejects \/ expireSettles

SpecRace == InitRace /\ [][NextRace]_vars

\* the step was the in-memory assignment of a set() call
Assigned(e) == e.ev = "call" /\ e.op = "set"
\* the step was the landing of a set() call's save: InMemoryStorage.save
\* writes during the call, writeFile and hset land later
Landed(e) ==
  /\ e.op = "set"
  /\ IF cfg.backend = "memory" THEN e.ev = "call"
     ELSE e.ev = "io" \/ (e.ev = "settled" /\ e.ok)
HasPartial(obj, e) == \A k \in DOMAIN e.partial : k \in DOMAIN obj /\ obj[k] = e.partial[k]

LoadCallRejected ==
  last.ev = "settled" /\ last.op \in {"initialize", "refresh"} /\ ~last.ok /\ last.clean

\* C20: when storage.load() rejects during an initialize() or refresh() that
\* no other call overlaps, the call rejects with no load left pending, the
\* live settings are the settings from before the call with the environment
\* overlay applied, and the stored object is as it was.
C20_LoadRejectedKeepsOverlay ==
  LoadCallRejected =>
    /\ settings = loadFromEnvVars(last.pre, cfg, env)
    /\ store = last.preStore
    /\ calls = <<>>

\* a rejected load whose call's overlay changed the live settings, which
\* are not the defaults either
C20_Witness ==
  /\ LoadCallRejected
  /\ settings # last.pre
  /\ settings # cfg.defaults
  /\ started = 1

(***************************************************************************)
(* The restricted environment overlay.                                     *)
(***************************************************************************)
\* the step was the synchronous part of initialize() or refresh(): the overlay
OverlayRan == last.ev = "call" /\ last.op \in {"initialize", "refresh"}
Restricted(c) == ~c.allowExtra \/ c.prefix = <<>>
VarSet(c, e, key) == getEnvVarName(c, key) \in DOMAIN e /\ e[getEnvVarName(c, key)] # <<>>

\* C21: with allow-extra disabled or no prefix, the overlay leaves the key
\* set of the live settings as it was, every key whose variable is unset or
\* empty keeps its value, and the other keys hold their variable's coerced
\* value.
C21_RestrictedOverlayFrame ==
  (OverlayRan /\ Restricted(cfg)) =>
    /\ DOMAIN settings = DOMAIN last.pre
    /\ \A key \in DOMAIN last.pre :
         IF VarSet(cfg, env, key)
         THEN settings[key] = assignEnvValue(env[getEnvVarName(cfg, key)])
         ELSE settings[key] = last.pre[key]

\* a restricted overlay that assigned one key and kept another, with two keys
\* in the settings
C21_Witness ==
  /\ OverlayRan /\ Restricted(cfg)
  /\ \E key \in DOMAIN settings : VarSet(cfg, env, key) /\ settings[key] # last.pre[key]
  /\ \E key \in DOMAIN settings : ~VarSet(cfg, env, key)

(***************************************************************************)
(* The client subscription of a Logger: init, destroy and updates of the   *)
(* store entry.                                                            *)
(***************************************************************************)
\* the fields a partial entry handed to setLogger may carry
EntryFields == {"level", "enabled", "errorVerbose"}
\* { ...state.loggers[name], ...entry } for a partial entry with one field,
\* whose value differs from the stored one
merged(entry, field) ==
  CASE field = "level" -> [entry EXCEPT !.level = IF @ = "trace" THEN "fatal" ELSE "trace"]
    [] field = "enabled" -> [entry EXCEPT !.enabled = ~@]
    [] OTHER -> [entry EXCEPT !.errorVerbose = ~@]

\* useLoggerStore.getState().setLogger({ name, [field]: value }): the entry
\* of the name is replaced by the merged one and every callback subscribed
\* to that entry runs
store_setLogger ==
  \E name \in DOMAIN loggerStore, field \in EntryFields :
    /\ isClientEnv
    /\ LET entry == merged(loggerStore[name], field)
       IN  /\ loggerStore' = setLogger(loggerStore, entry)
           /\ loggers' = [i \in 1..Len(loggers) |-> onEntry(loggers[i], entry)]
           /\ reply' = Reply("setLogger", 0, <<entry>>, <<>>, field)
    /\ emitted' = NoLog
    /\ created' = NotCreated
    /\ UNCHANGED <<isClientEnv, moduleGlobalLogLevel, overrideReset, registry, registered,
                   settingsVars, coerceVars>>

\* logger.init(register) called again on an instance
init ==
  \E i \in 1..Len(loggers), reg \in BOOLEAN :
    /\ LET this == loggers[i]
           existed == this.name \in DOMAIN loggerStore
       IN  IF isClientEnv
           THEN /\ loggers' = [loggers EXCEPT ![i] =
                                 subscribe(IF existed THEN adopt(this, loggerStore[this.name])
                                           ELSE this)]
                /\ loggerStore' = IF existed THEN loggerStore
                                  ELSE setLogger(loggerStore, toJSON(this))
                /\ UNCHANGED <<registry, registered>>
           ELSE /\ registry' = IF reg THEN register(registry, this.name, i) ELSE registry
                /\ registered' = IF reg THEN registered \cup {this.name} ELSE registered
                /\ UNCHANGED <<loggers, loggerStore>>
    /\ reply' = Reply("init", 0, <<i>>, <<>>, "none")
    /\ emitted' = NoLog
    /\ created' = NotCreated
    /\ UNCHANGED <<isClientEnv, moduleGlobalLogLevel, overrideReset, settingsVars, coerceVars>>

\* logger.destroy(): if (this.unsubscribe) this.unsubscribe()
destroy ==
  \E i \in 1..Len(loggers) :
    /\ loggers' = [loggers EXCEPT ![i] = release(@)]
    /\ reply' = Reply("destroy", 0, <<i>>, <<>>, "none")
    /\ emitted' = NoLog
    /\ created' = NotCreated
    /\ UNCHANGED <<isClientEnv, moduleGlobalLogLevel, overrideReset, registry, loggerStore,
                   registered, settingsVars, coerceVars>>

\* new Logger("x", type, level, errorVerbose, enabled) on the client
newClientLogger ==
  construct("x", <<"service", "info", FALSE, TRUE>>, TRUE, 0) /\ reply' = NoReply

InitSubscription ==
  /\ registered = {}
  /\ reply = NoReply
  /\ isClientEnv = TRUE
  /\ moduleGlobalLogLevel = "null"
  /\ overrideReset = FALSE
  /\ loggers = <<>>
  /\ registry = [name \in {} |-> 0]
  /\ loggerStore \in {[name \in {} |-> NoEntry], [name \in {"x"} |-> PersistedEntry]}
  /\ emitted = NoLog
  /\ created = NotCreated
  /\ SettingsIdle
  /\ CoerceIdle

NextSubscription == newClientLogger \/ store_setLogger \/ init \/ destroy

SpecSubscription == InitSubscription /\ [][NextSubscription]_vars

\* the instance has been constructed or initialised and not destroyed since
Subscribed(logger) == logger.unsubscribe = "live"
Mirrors(logger, entry) ==
  /\ logger.level = entry.level
  /\ logger.enabled = entry.enabled
  /\ logger.errorVerbose = entry.errorVerbose

\* C22: on the client a setLogger on a name sets level, enabled and
\* errorVerbose of every instance of that name that has been initialised and
\* not destroyed since to the entry's, and changes no other instance (a
\* destroyed one included); an instance holds at most one subscription.
C22_SubscriptionMirrors ==
  /\ \A i \in 1..Len(loggers) : loggers[i].listeners <= 1
  /\ (isClientEnv /\ reply.op = "setLogger") =>
       \A i \in 1..Len(loggers) :
         LET before == reply.preLoggers[i]
             entry == reply.body[1]
         IN  IF before.name = entry.name /\ Subscribed(before)
             THEN Mirrors(loggers[i], entry) /\ loggers[i].type = before.type
             ELSE loggers[i] = before

\* a setLogger on the name of two instances, one destroyed and one still
\* subscribed, that changed the subscribed one
C22_Witness ==
  /\ isClientEnv /\ reply.op = "setLogger"
  /\ \E i, j \in 1..Len(loggers) :
       /\ reply.preLoggers[i].name = reply.body[1].name
       /\ reply.preLoggers[j].name = reply.body[1].name
       /\ reply.preLoggers[i].unsubscribe = "called"
       /\ Subscribed(reply.preLoggers[j])
       /\ loggers[j] # reply.preLoggers[j]

(***************************************************************************)
(* Disabling and re-enabling a registered logger on the server.            *)
(***************************************************************************)
InitEnabled ==
  /\ isClientEnv = FALSE
  /\ moduleGlobalLogLevel = "null"
  /\ overrideReset = FALSE
  /\ \E level \in {"info", "error"}, enabled \in BOOLEAN :
       loggers = <<Logger("x", "service", level, TRUE, enabled)>>
  /\ registry = [name \in {"x"} |-> 1]
  /\ registered = {"x"}
  /\ loggerStore = [name \in {} |-> NoEntry]
  /\ emitted = NoLog
  /\ created = NotCreated
  /\ reply = NoReply
  /\ SettingsIdle
  /\ CoerceIdle

NextEnabled == log \/ setEnabled \/ setModuleGlobalLevel \/ putServerLoggerHandler

SpecEnabled == InitEnabled /\ [][NextEnabled]_vars

\* the level a log call is filtered by
EffectiveLevel(logger) ==
  IF moduleGlobalLogLevel # "null" THEN moduleGlobalLogLevel ELSE logger.level
\* a PUT that was accepted and carried enabled: true
PutEnabled ==
  reply.op = "put" /\ reply.status = 200 /\ reply.body[1].enabled = JBool(TRUE)

\* C23: a log call on a logger whose enabled flag is false reaches no console
\* function, whatever the level, the instance level and the override; on an
\* enabled logger it reaches one exactly when its level is at most the
\* effective level; and an accepted PUT with enabled: true leaves the logger
\* enabled.
C23_DisabledEmitsNothing ==
  /\ [](emitted.logged =>
         LET logger == loggers[emitted.logger]
         IN  IF ~logger.enabled THEN emitted.sink = "none"
             ELSE (emitted.sink # "none") <=>
                    (LOG_LEVELS[emitted.level] <= LOG_LEVELS[EffectiveLevel(logger)]))
  /\ [][(PutEnabled' /\ reply' # reply)
          => loggers'[reply'.preRegistry[reply'.body[1].name.v]].enabled]_vars

\* a logger that was disabled, was enabled again by a PUT and then emitted
C23_Witness ==
  /\ PutEnabled
  /\ ~reply.preLoggers[1].enabled
  /\ emitted.logged /\ emitted.sink # "none"

(***************************************************************************)
(* Read-your-writes when calls overlap.                                    *)
(***************************************************************************)
\* C24 (as claimed): once a set(partial) has resolved, and no call has been
\* made after it, get() holds the partial's value for each of its keys, also
\* when an initialize() or refresh() made before the set was still running.
C24_ReadYourWritesInterleaved ==
  (Settled("set") /\ last.ok /\ last.n = started) => HoldsPartial

(***************************************************************************)
(* new SettingsManager(options): the logger override is set to the         *)
(* manager's logLevel and the manager's own logger is constructed with it. *)
(***************************************************************************)
\* options.logLevel; "warn" is the default of the destructuring
ManagerLogLevels == {"warn", "debug", "error"}

\* Mutant: the constructor leaves the override alone.
newSettingsManager_noOverride ==
  \E name \in CtorNames, logLevel \in ManagerLogLevels :
    /\ started < MaxCalls
    /\ started' = started + 1
    /\ LET this == Logger(name, "class", logLevel, TRUE, TRUE)
           idx == Len(loggers) + 1
       IN  /\ UNCHANGED <<moduleGlobalLogLevel, overrideReset>>
           /\ loggers' = Append(loggers, this)
           /\ registry' = register(registry, name, idx)
           /\ registered' = registered \cup {name}
           /\ created' = [made |-> TRUE, logger |-> idx, register |-> TRUE,
                          existed |-> name \in DOMAIN registry,
                          existing |-> IF name \in DOMAIN registry
                                       THEN toJSON(loggers[registry[name]]) ELSE NoEntry,
                          args |-> toJSON(this), from |-> 0]
    /\ emitted' = NoLog
    /\ reply' = NoReply
    /\ settings' = cfg.defaults
    /\ last' = [NewEvent EXCEPT !.ev = "constructed", !.n = started + 1]
    /\ UNCHANGED <<cfg, env, store, calls, requests, isClientEnv, loggerStore, coerceVars>>

\* The constructor: Logger.setModuleGlobalLevel(logLevel), then
\* new Logger(name, "class", logLevel, true, true), which registers itself,
\* then this._settings = { ...defaults }.
newSettingsManager ==
  \E name \in CtorNames, logLevel \in ManagerLogLevels :
    /\ started < MaxCalls
    /\ started' = started + 1
    /\ LET this == Logger(name, "class", logLevel, TRUE, TRUE)
           idx == Len(loggers) + 1
       IN  /\ moduleGlobalLogLevel' = logLevel
           /\ overrideReset' = FALSE
           /\ loggers' = Append(loggers, this)
           /\ registry' = register(registry, name, idx)
           /\ registered' = registered \cup {name}
           /\ created' = [made |-> TRUE, logger |-> idx, register |-> TRUE,
                          existed |-> name \in DOMAIN registry,
                          existing |-> IF name \in DOMAIN registry
                                       THEN toJSON(loggers[registry[name]]) ELSE NoEntry,
                          args |-> toJSON(this), from |-> 0]
    /\ emitted' = NoLog
    /\ reply' = NoReply
    /\ settings' = cfg.defaults
    /\ last' = [NewEvent EXCEPT !.ev = "constructed", !.n = started + 1]
    /\ UNCHANGED <<cfg, env, store, calls, requests, isClientEnv, loggerStore, coerceVars>>

\* The settings module has been imported on the server: its top level has
\* run Logger.setModuleGlobalLevel("warn").  The application has a logger
\* of its own.
InitManagers ==
  /\ isClientEnv = FALSE
  /\ moduleGlobalLogLevel = "warn"
  /\ overrideReset = FALSE
  /\ \E level \in {"info", "trace"} :
       loggers = <<Logger("x", "service", level, TRUE, TRUE)>>
  /\ registry = [name \in {"x"} |-> 1]
  /\ registered = {"x"}
  /\ loggerStore = [name \in {} |-> NoEntry]
  /\ emitted = NoLog
  /\ created = NotCreated
  /\ reply = NoReply
  /\ SettingsIdle
  /\ CoerceIdle

NextManagers == newSettingsManager \/ log \/ setModuleGlobalLevel

SpecManagers == InitManagers /\ [][NextManagers]_vars

\* a step that constructed a manager
ManagerConstructed == last' # last

KeyUpperA == <<"A">>
OverlayDefaults ==
  { Obj1(KeyA, MkNum(0)), Obj1(KeyUpperA, MkNum(1)),
    Spread(Obj1(KeyA, MkNum(0)), Obj1(KeyUpperA, MkNum(1))),
    Spread(Obj1(KeyA, MkNum(0)), Obj1(KeyB, MkStr(<<"x">>))) }
\* process.env: no variable, or one of P_A = "3", P_A = "", P_B = "true",
\* P_C = "3"
OverlayEnvs ==
  { EmptyObj, Obj1(<<"P", "_", "A">>, <<"3">>), Obj1(<<"P", "_", "A">>, <<>>),
    Obj1(<<"P", "_", "B">>, <<"t", "r", "u", "e">>), Obj1(<<"P", "_", "C">>, <<"3">>) }

InitOverlay ==
  /\ cfg \in [prefix : {<<"p">>}, allowExtra : BOOLEAN, backend : {"memory"},
              ttl : {FALSE}, defaults : OverlayDefaults]
  /\ env \in OverlayEnvs
  /\ store = EmptyObj
  /\ settings = cfg.defaults
  /\ calls = <<>>
  /\ started = 0
  /\ last = NewEvent
  /\ requests = <<>>
  /\ CoerceIdle
  /\ LoggerIdle

NextOverlay == initialize \/ refresh \/ loadResumes

SpecOverlay == InitOverlay /\ [][NextOverlay]_vars

\* what the restricted and the allow-extra overlay make of the same object
RestrictedOverlay(s) == loadFromEnvVars(s, [cfg EXCEPT !.allowExtra = FALSE], env)
ExtraOverlay(s) == loadFromEnvVars(s, [cfg EXCEPT !.allowExtra = TRUE], env)
IsLowerCase(key) == toLowerCase(key) = key

Roles == {"admin", "guest"}
Permissions == {"write", "audit"}
\* what `await getUserFromRequest(request)` does: it throws, or gives null,
\* or a user whose role is a role or undefined ("") and whose permissions
\* are a list or undefined
NoUser(outcome) ==
  [outcome |-> outcome, role |-> "", hasPermissions |-> FALSE, permissions |-> {}]
Users ==
  {NoUser("throws"), NoUser("null")}
    \cup {[outcome |-> "user", role |-> role, hasPermissions |-> FALSE, permissions |-> {}] :
            role \in Roles \cup {""}}
    \cup [outcome : {"user"}, role : {"admin"}, hasPermissions : {TRUE},
          permissions : SUBSET Permissions]
RBACOptions ==
  [requiredRole : {"", "admin"}, requiredPermissions : {{}, {"write"}, Permissions},
   getUserFromRequest : BOOLEAN]
\* the parsed request bodies: null (no object), or an object
NotAnObject == [isObject |-> FALSE, entries |-> EmptyObj]
RBACBodies ==
  {NotAnObject} \cup {[isObject |-> TRUE, entries |-> partial] : partial \in Partials}

\* the validateUpdate createRBACSettingsApi hands to createSettingsApiHandler
validateUpdate(options, user) ==
  IF ~options.getUserFromRequest THEN TRUE
  ELSE IF user.outcome = "throws" THEN FALSE
  ELSE IF user.outcome = "null" THEN FALSE
  ELSE IF options.requiredRole # "" /\ user.role # options.requiredRole THEN FALSE
  ELSE IF options.requiredPermissions # {}
          /\ ~(options.requiredPermissions \subseteq
                 (IF user.hasPermissions THEN user.permissions ELSE {}))
       THEN FALSE
  ELSE TRUE

\* POST of createSettingsApiHandler with that validateUpdate, on a manager
\* with InMemoryStorage: 400 for a body that is no object, 403 when the
\* validation fails, else settingsManager.set(body) and the settings (200)
POST ==
  \E user \in Users, body \in RBACBodies :
    /\ started < MaxRequests
    /\ started' = started + 1
    /\ LET newSettings == body.entries
           status == IF ~body.isObject THEN 400
                     ELSE IF ~validateUpdate(cfg, user) THEN 403
                     ELSE 200
       IN  /\ settings' = IF status = 200 THEN setMerge(settings, newSettings) ELSE settings
           /\ store' = IF status = 200 THEN save(cfg, store, settings') ELSE store
           /\ last' = [ev |-> "reply", status |-> status, user |-> user,
                       body |-> body, pre |-> settings, preStore |-> store,
                       n |-> started + 1]
    /\ UNCHANGED <<cfg, env, calls, requests, coerceVars, loggerVars>>

InitRBAC ==
  /\ \E options \in RBACOptions :
       cfg = [prefix |-> <<>>, allowExtra |-> FALSE, backend |-> "memory", ttl |-> FALSE,
              defaults |-> Obj1(KeyA, MkNum(0)),
              requiredRole |-> options.requiredRole,
              requiredPermissions |-> options.requiredPermissions,
              getUserFromRequest |-> options.getUserFromRequest]
  /\ env = EmptyObj
  /\ settings = cfg.defaults
  /\ store = EmptyObj
  /\ calls = <<>>
  /\ started = 0
  /\ last = [ev |-> "none", status |-> 0, user |-> NoUser("null"), body |-> NotAnObject,
             pre |-> settings, preStore |-> store, n |-> 0]
  /\ requests = <<>>
  /\ CoerceIdle
  /\ LoggerIdle

NextRBAC == POST

SpecRBAC == InitRBAC /\ [][NextRBAC]_vars

\* the request's user exists, has the required role and all the required
\* permissions
Authorised(user) ==
  /\ user.outcome = "user"
  /\ cfg.requiredRole # "" => user.role = cfg.requiredRole
  /\ cfg.requiredPermissions \subseteq user.permissions
Protected == cfg.requiredRole # "" \/ cfg.requiredPermissions # {}

\* C29 (as claimed): with a required role or required permissions, a POST
\* with an object body from a request whose user is not authorised is
\* answered 403 and changes neither the live settings nor the stored ones,
\* whether or not getUserFromRequest is supplied.
C29_RBACGuardsPost ==
  (last.ev = "reply" /\ Protected /\ last.body.isObject /\ ~Authorised(last.user))
    => /\ last.status = 403
       /\ settings = last.pre
       /\ store = last.preStore

\* C29 for handlers that were given a getUserFromRequest.
C29_RBACGuardsPostWithGetUser ==
  (last.ev = "reply" /\ Protected /\ last.body.isObject /\ cfg.getUserFromRequest)
    => IF Authorised(last.user)
       THEN last.status = 200 /\ settings = setMerge(last.pre, last.body.entries)
       ELSE last.status = 403 /\ settings = last.pre /\ store = last.preStore

(***************************************************************************)
(* What the registry holds after a logger POST was answered with success.  *)
(***************************************************************************)
\* a POST that answered { success: true, config: c }; c is newLogger.toJSON()
PostSucceeded == reply.op = "post" /\ reply.status = 200 /\ created.made
PostConfig == created.args

\* C30 (as claimed): after a POST answered { success: true, config: c } the
\* registry holds under c.name a logger whose toJSON() is c, also when the
\* name was registered before the POST.
C30_PostedConfigRegistered ==
  PostSucceeded =>
    /\ PostConfig.name \in DOMAIN registry
    /\ toJSON(loggers[registry[PostConfig.name]]) = PostConfig

\* C30 for a name that was not registered before the POST.
C30_NewNameRegistered ==
  (PostSucceeded /\ ~created.existed) =>
    /\ PostConfig.name \in DOMAIN registry
    /\ registry[PostConfig.name] = created.logger
    /\ toJSON(loggers[registry[PostConfig.name]]) = PostConfig

=============================================================================
